---------------------------- MODULE Spec2Model ----------------------------
(***************************************************************************)
(* A model of klore: the .klore definition language (generateKlore and     *)
(* parseKlore of template/kloreParser.ts) and the replacement engine of    *)
(* core/template/installer.ts (promptVariables, applyReplacements,         *)
(* copyWithReplacements, runPostInstall, installTemplate).                 *)
(*                                                                         *)
(* A JavaScript string is a sequence of one-character strings.             *)
(***************************************************************************)
EXTENDS Integers, Sequences, FiniteSets, TLC

VARIABLES
    esc,        \* the escape/unescape run of one REPLACE original
    rt,         \* the generate/parse run of one template
    ap,         \* one applyReplacements call
    ps,         \* one parseKlore call on a definition text
    tw,         \* two copyWithReplacements runs of the same inputs
    cu,         \* KloreParser: the line cursor of one parseKlore call after another
    pc,         \* installTemplate: the await it has reached
    env,        \* installTemplate: the source tree, the options, the destination found
    template,   \* installTemplate: the template read from .klore
    dest,       \* the destination tree on disk
    prompt,     \* promptVariables: variables left to ask, values so far
    resolved,   \* installTemplate: the resolved value map
    walk,       \* copyWithReplacements: the processDir frames and the counters
    post,       \* runPostInstall: the commands started and the errors recorded
    installResult \* the InstallResult returned

pureVars == <<esc, rt, ap, ps, tw, cu>>
instVars == <<pc, env, template, dest, prompt, resolved, walk, post, installResult>>
vars == <<esc, rt, ap, ps, tw, cu, pc, env, template, dest, prompt, resolved, walk, post, installResult>>

\* A run that a specification does not exercise.
Off == [pc |-> "off"]
InstallOff ==
    /\ pc = "off" /\ env = Off /\ template = Off /\ dest = Off /\ prompt = Off
    /\ resolved = Off /\ walk = Off /\ post = Off /\ installResult = Off

---------------------------------------------------------------------------
(* Characters and the String methods the code uses                         *)

BS == "\\"
DQ == "\""
SQ == "'"
NL == "\n"
SP == " "

WhiteSpace == {" ", "\n", "\t", "\r"}

LowerLetters == <<"a","b","c","d","e","f","g","h","i","j","k","l","m",
                  "n","o","p","q","r","s","t","u","v","w","x","y","z">>
UpperLetters == <<"A","B","C","D","E","F","G","H","I","J","K","L","M",
                  "N","O","P","Q","R","S","T","U","V","W","X","Y","Z">>
Digits == {"0","1","2","3","4","5","6","7","8","9"}

IsLower(c) == \E i \in 1..26 : LowerLetters[i] = c
IsUpper(c) == \E i \in 1..26 : UpperLetters[i] = c
\* \w of a JavaScript regular expression
IsWord(c) == IsLower(c) \/ IsUpper(c) \/ c \in Digits \/ c = "_"

ToUpperChar(c) ==
    IF IsLower(c) THEN UpperLetters[CHOOSE i \in 1..26 : LowerLetters[i] = c] ELSE c
ToLowerChar(c) ==
    IF IsUpper(c) THEN LowerLetters[CHOOSE i \in 1..26 : UpperLetters[i] = c] ELSE c

ToUpperCase(s) == [i \in 1..Len(s) |-> ToUpperChar(s[i])]
ToLowerCase(s) == [i \in 1..Len(s) |-> ToLowerChar(s[i])]

\* s.substring(from - 1, to) with 1-based inclusive bounds
Sub(s, from, to) == IF from > to THEN <<>> ELSE SubSeq(s, from, to)

\* p occurs in s at position i
IsPrefixAt(p, s, i) ==
    /\ i + Len(p) - 1 <= Len(s)
    /\ \A k \in 1..Len(p) : s[i + k - 1] = p[k]

StartsWith(s, p) == IsPrefixAt(p, s, 1)
EndsWith(s, p) == Len(p) <= Len(s) /\ IsPrefixAt(p, s, Len(s) - Len(p) + 1)

\* s.indexOf(p) from position i on, 1-based; 0 when p does not occur
RECURSIVE IndexFrom(_, _, _)
IndexFrom(s, p, i) ==
    IF i + Len(p) - 1 > Len(s) THEN 0
    ELSE IF IsPrefixAt(p, s, i) THEN i
    ELSE IndexFrom(s, p, i + 1)

IndexOf(s, p) == IndexFrom(s, p, 1)
Includes(s, p) == IndexOf(s, p) # 0

\* s.replace(/p/g, r) for a pattern p that matches one literal text
RECURSIVE ReplaceFrom(_, _, _, _)
ReplaceFrom(s, p, r, i) ==
    IF i > Len(s) THEN <<>>
    ELSE IF IsPrefixAt(p, s, i) THEN r \o ReplaceFrom(s, p, r, i + Len(p))
    ELSE <<s[i]>> \o ReplaceFrom(s, p, r, i + 1)

ReplaceAll(s, p, r) == ReplaceFrom(s, p, r, 1)

\* s.trim()
RECURSIVE TrimStartIdx(_, _)
TrimStartIdx(s, i) ==
    IF i > Len(s) THEN i
    ELSE IF s[i] \in WhiteSpace THEN TrimStartIdx(s, i + 1) ELSE i
RECURSIVE TrimEndIdx(_, _)
TrimEndIdx(s, j) ==
    IF j < 1 THEN j
    ELSE IF s[j] \in WhiteSpace THEN TrimEndIdx(s, j - 1) ELSE j

Trim(s) == Sub(s, TrimStartIdx(s, 1), TrimEndIdx(s, Len(s)))

\* lines.join('\n')
RECURSIVE Join(_, _)
Join(ls, sep) ==
    IF Len(ls) = 0 THEN <<>>
    ELSE IF Len(ls) = 1 THEN ls[1]
    ELSE ls[1] \o sep \o Join(Tail(ls), sep)

\* content.split('\n')
RECURSIVE SplitFrom(_, _, _)
SplitFrom(s, c, i) ==
    LET RECURSIVE Next(_)
        Next(j) == IF j > Len(s) \/ s[j] = c THEN j ELSE Next(j + 1)
        e == Next(i)
    IN  IF e > Len(s) THEN <<Sub(s, i, Len(s))>>
        ELSE <<Sub(s, i, e - 1)>> \o SplitFrom(s, c, e + 1)

Split(s, c) == SplitFrom(s, c, 1)

\* All strings over an alphabet of at most n characters
RECURSIVE Strings(_, _)
Strings(alphabet, n) ==
    IF n = 0 THEN {<<>>}
    ELSE LET shorter == Strings(alphabet, n - 1)
         IN  shorter \cup {Append(s, c) : s \in shorter, c \in alphabet}

---------------------------------------------------------------------------
(* The escaping of a REPLACE original                                      *)

\* generateKlore: r.original.replace(/\\/g,'\\\\').replace(/"/g,'\\"').replace(/\n/g,'\\n')
EscapeOriginal(original) ==
    ReplaceAll(ReplaceAll(ReplaceAll(original, <<BS>>, <<BS, BS>>),
                          <<DQ>>, <<BS, DQ>>),
               <<NL>>, <<BS, "n">>)

\* parseReplacement: rawOriginal.replace(/\\n/g,'\n').replace(/\\"/g,'"').replace(/\\\\/g,'\\')
UnescapeOriginal(rawOriginal) ==
    ReplaceAll(ReplaceAll(ReplaceAll(rawOriginal, <<BS, "n">>, <<NL>>),
                          <<BS, DQ>>, <<DQ>>),
               <<BS, BS>>, <<BS>>)

---------------------------------------------------------------------------
(* The template model (types.ts)                                           *)

\* The value of an optional field that was never set.
Undef == <<"undefined">>
\* A JavaScript string used as a condition
Truthy(s) == s # Undef /\ s # <<>>

SeqMap(F(_), s) == [i \in 1..Len(s) |-> F(s[i])]

RECURSIVE Flatten(_)
Flatten(ss) == IF Len(ss) = 0 THEN <<>> ELSE ss[1] \o Flatten(Tail(ss))

RECURSIVE Repeat(_, _)
Repeat(c, n) == IF n = 0 THEN <<>> ELSE <<c>> \o Repeat(c, n - 1)

\* array.includes(x)
ArrIncludes(arr, x) == \E i \in 1..Len(arr) : arr[i] = x

\* The index of template.groups.find(g => g.variables.includes(name)), 0 for none
FindGroup(groups, name) ==
    IF \E i \in 1..Len(groups) : ArrIncludes(groups[i].variables, name)
    THEN CHOOSE i \in 1..Len(groups) :
            /\ ArrIncludes(groups[i].variables, name)
            /\ \A j \in 1..(i - 1) : ~ArrIncludes(groups[j].variables, name)
    ELSE 0

---------------------------------------------------------------------------
(* generateKlore (template/kloreParser.ts)                                 *)

groupOrder == << <<"b","r","a","n","d","i","n","g">>, <<"c","o","l","o","r","s">>, <<"c","o","n","t","a","c","t">>, <<"c","o","n","t","e","n","t">>, <<"s","o","c","i","a","l">>,
                 <<"i","n","s","t","i","t","u","t","i","o","n">>, <<"l","e","g","a","l">>, <<"m","a","p","s">>, <<"c","o","n","f","i","g">> >>

\* groupDescriptions[groupKey] || groupKey
groupDescription(groupKey) ==
    CASE groupKey = <<"b","r","a","n","d","i","n","g">> -> <<"B","r","a","n","d"," ","I","d","e","n","t","i","t","y">>
      [] groupKey = <<"c","o","l","o","r","s">> -> <<"T","h","e","m","e"," ","C","o","l","o","r","s">>
      [] groupKey = <<"c","o","n","t","a","c","t">> -> <<"C","o","n","t","a","c","t"," ","I","n","f","o","r","m","a","t","i","o","n">>
      [] groupKey = <<"c","o","n","t","e","n","t">> -> <<"P","a","g","e"," ","C","o","n","t","e","n","t">>
      [] groupKey = <<"s","o","c","i","a","l">> -> <<"S","o","c","i","a","l"," ","M","e","d","i","a">>
      [] groupKey = <<"i","n","s","t","i","t","u","t","i","o","n">> -> <<"O","r","g","a","n","i","z","a","t","i","o","n"," ","I","n","f","o">>
      [] groupKey = <<"l","e","g","a","l">> -> <<"L","e","g","a","l"," ","&"," ","C","o","p","y","r","i","g","h","t">>
      [] groupKey = <<"m","a","p","s">> -> <<"L","o","c","a","t","i","o","n"," ","&"," ","M","a","p","s">>
      [] groupKey = <<"c","o","n","f","i","g">> -> <<"C","o","n","f","i","g","u","r","a","t","i","o","n">>
      [] OTHER -> groupKey

\* questions[groupKey]?.[varName]; <<>> when the table has no entry
questionOverride(varName, groupKey) ==
    CASE groupKey = <<"b","r","a","n","d","i","n","g">> /\ varName = <<"s","t","o","r","e","N","a","m","e">> -> <<"W","h","a","t"," ","i","s"," ","y","o","u","r"," ","s","t","o","r","e","/","c","o","m","p","a","n","y"," ","n","a","m","e","?">>
      [] groupKey = <<"b","r","a","n","d","i","n","g">> /\ varName = <<"a","p","p","N","a","m","e">> -> <<"W","h","a","t"," ","i","s"," ","y","o","u","r"," ","a","p","p","l","i","c","a","t","i","o","n"," ","n","a","m","e","?">>
      [] groupKey = <<"b","r","a","n","d","i","n","g">> /\ varName = <<"c","o","m","p","a","n","y","N","a","m","e">> -> <<"W","h","a","t"," ","i","s"," ","y","o","u","r"," ","c","o","m","p","a","n","y"," ","n","a","m","e","?">>
      [] groupKey = <<"b","r","a","n","d","i","n","g">> /\ varName = <<"t","a","g","l","i","n","e">> -> <<"W","h","a","t"," ","i","s"," ","y","o","u","r"," ","t","a","g","l","i","n","e","/","s","l","o","g","a","n","?">>
      [] groupKey = <<"b","r","a","n","d","i","n","g">> /\ varName = <<"s","t","o","r","e","D","e","s","c","r","i","p","t","i","o","n">> -> <<"D","e","s","c","r","i","b","e"," ","y","o","u","r"," ","s","t","o","r","e","/","c","o","m","p","a","n","y"," ","i","n"," ","o","n","e"," ","p","a","r","a","g","r","a","p","h",":">>
      [] groupKey = <<"c","o","l","o","r","s">> /\ varName = <<"p","r","i","m","a","r","y","C","o","l","o","r">> -> <<"W","h","a","t"," ","i","s"," ","y","o","u","r"," ","p","r","i","m","a","r","y"," ","b","r","a","n","d"," ","c","o","l","o","r","?"," ","(","h","e","x",")">>
      [] groupKey = <<"c","o","l","o","r","s">> /\ varName = <<"s","e","c","o","n","d","a","r","y","C","o","l","o","r">> -> <<"W","h","a","t"," ","i","s"," ","y","o","u","r"," ","s","e","c","o","n","d","a","r","y"," ","c","o","l","o","r","?"," ","(","h","e","x",")">>
      [] groupKey = <<"c","o","l","o","r","s">> /\ varName = <<"a","c","c","e","n","t","C","o","l","o","r">> -> <<"W","h","a","t"," ","i","s"," ","y","o","u","r"," ","a","c","c","e","n","t"," ","c","o","l","o","r","?"," ","(","h","e","x",")">>
      [] groupKey = <<"c","o","n","t","a","c","t">> /\ varName = <<"e","m","a","i","l">> -> <<"W","h","a","t"," ","i","s"," ","y","o","u","r"," ","c","o","n","t","a","c","t"," ","e","m","a","i","l","?">>
      [] groupKey = <<"c","o","n","t","a","c","t">> /\ varName = <<"p","h","o","n","e">> -> <<"W","h","a","t"," ","i","s"," ","y","o","u","r"," ","p","h","o","n","e"," ","n","u","m","b","e","r","?">>
      [] groupKey = <<"c","o","n","t","a","c","t">> /\ varName = <<"a","d","d","r","e","s","s">> -> <<"W","h","a","t"," ","i","s"," ","y","o","u","r"," ","b","u","s","i","n","e","s","s"," ","a","d","d","r","e","s","s","?">>
      [] groupKey = <<"c","o","n","t","a","c","t">> /\ varName = <<"b","u","s","i","n","e","s","s","H","o","u","r","s">> -> <<"W","h","a","t"," ","a","r","e"," ","y","o","u","r"," ","b","u","s","i","n","e","s","s"," ","h","o","u","r","s","?">>
      [] groupKey = <<"s","o","c","i","a","l">> /\ varName = <<"f","a","c","e","b","o","o","k","U","r","l">> -> <<"E","n","t","e","r"," ","y","o","u","r"," ","F","a","c","e","b","o","o","k"," ","U","R","L",":">>
      [] groupKey = <<"s","o","c","i","a","l">> /\ varName = <<"i","n","s","t","a","g","r","a","m","U","r","l">> -> <<"E","n","t","e","r"," ","y","o","u","r"," ","I","n","s","t","a","g","r","a","m"," ","U","R","L",":">>
      [] groupKey = <<"s","o","c","i","a","l">> /\ varName = <<"t","w","i","t","t","e","r","U","r","l">> -> <<"E","n","t","e","r"," ","y","o","u","r"," ","T","w","i","t","t","e","r","/","X"," ","U","R","L",":">>
      [] groupKey = <<"s","o","c","i","a","l">> /\ varName = <<"y","o","u","t","u","b","e","U","r","l">> -> <<"E","n","t","e","r"," ","y","o","u","r"," ","Y","o","u","T","u","b","e"," ","U","R","L",":">>
      [] OTHER -> <<>>

\* varName.replace(/([A-Z])/g, ' $1')
SplitCamel(varName) ==
    Flatten([i \in 1..Len(varName) |->
                IF IsUpper(varName[i]) THEN <<SP, varName[i]>> ELSE <<varName[i]>>])

generateSmartQuestion(varName, groupKey) ==
    LET readable == ToLowerCase(Trim(SplitCamel(varName)))
        specific == questionOverride(varName, groupKey)
    IN  IF Truthy(specific) THEN specific
        ELSE <<"E","n","t","e","r"," ">> \o readable \o <<":">>

\* The length past which a default value is cut in a generated ASK line
DefaultCap == 100

EscapeDefault(d) == ReplaceAll(ReplaceAll(d, <<DQ>>, <<BS, DQ>>), <<NL>>, <<SP>>)
TruncateDefault(d) ==
    IF Len(d) > DefaultCap THEN Sub(d, 1, DefaultCap) \o <<".",".",".">> ELSE d

\* v.defaultValue || ''
DefaultOrEmpty(v) == IF Truthy(v.defaultValue) THEN v.defaultValue ELSE <<>>

AskLine(v, question, defaultVal) ==
    <<"A","S","K"," ">> \o v.name \o <<SP, DQ>> \o question \o <<DQ>>
    \o (IF Truthy(defaultVal) THEN <<" ","D","E","F","A","U","L","T"," ">> \o <<DQ>> \o defaultVal \o <<DQ>> ELSE <<>>)
    \o (IF v.required THEN <<" ","R","E","Q","U","I","R","E","D">> ELSE <<>>)

\* The line of a variable of a canonical group: cut the default, then escape it
GroupedAskLine(v, groupKey) ==
    AskLine(v, generateSmartQuestion(v.name, groupKey),
            EscapeDefault(TruncateDefault(DefaultOrEmpty(v))))

\* The line of a variable of the "other" section: escape the default, then cut it
OtherAskLine(v) ==
    AskLine(v, generateSmartQuestion(v.name, <<"o","t","h","e","r">>),
            TruncateDefault(EscapeDefault(DefaultOrEmpty(v))))

\* The key of groupedVars that variable v is pushed under
VarGroupName(t, v) ==
    LET g == FindGroup(t.groups, v.name)
    IN  IF g # 0 THEN t.groups[g].name ELSE <<"o","t","h","e","r">>

\* groupedVars[key]: the variables pushed under key, in encounter order
groupedVars(t, key) == SelectSeq(t.variables, LAMBDA v : VarGroupName(t, v) = key)

\* The key of replacementsByGroup that replacement r is pushed under
ReplGroupName(t, r) ==
    LET g == FindGroup(t.groups, r.variable)
    IN  IF g # 0 /\ Truthy(t.groups[g].name) THEN t.groups[g].name ELSE <<"o","t","h","e","r">>

replacementsByGroup(t, key) ==
    SelectSeq(t.replacements, LAMBDA r : ReplGroupName(t, r) = key)

ReplaceLine(r) ==
    LET patterns == Join(SeqMap(LAMBDA p : <<DQ>> \o p \o <<DQ>>, r.filePatterns), <<SP>>)
    IN  <<" "," "," "," ","R","E","P","L","A","C","E"," ">> \o <<DQ>> \o EscapeOriginal(r.original) \o <<DQ>>
        \o <<" ","W","I","T","H"," ">> \o <<DQ>> \o <<"{","{"," ">> \o r.variable \o <<" ","}","}">> \o <<DQ>>
        \o <<" ","I","N"," ">> \o patterns

\* The progress message of a post-install command
RunMessage(cmd) ==
    IF Includes(cmd, <<"n","p","m"," ","r","u","n"," ","b","u","i","l","d">>) THEN <<"B","u","i","l","d","i","n","g"," ","a","s","s","e","t","s",".",".",".">>
    ELSE IF Includes(cmd, <<"a","r","t","i","s","a","n"," ","m","i","g","r","a","t","e">>) THEN <<"S","e","t","t","i","n","g"," ","u","p"," ","d","a","t","a","b","a","s","e",".",".",".">>
    ELSE IF Includes(cmd, <<"n","p","m"," ","i","n","s","t","a","l","l">>) THEN <<"I","n","s","t","a","l","l","i","n","g"," ","N","o","d","e"," ","d","e","p","e","n","d","e","n","c","i","e","s",".",".",".">>
    ELSE IF Includes(cmd, <<"c","o","m","p","o","s","e","r"," ","i","n","s","t","a","l","l">>) THEN <<"I","n","s","t","a","l","l","i","n","g"," ","P","H","P"," ","d","e","p","e","n","d","e","n","c","i","e","s",".",".",".">>
    ELSE <<"R","u","n","n","i","n","g"," ">> \o cmd \o <<".",".",".">>

RunLine(cmd, msg) ==
    <<" "," "," "," ","R","U","N"," ">> \o <<DQ>> \o cmd \o <<DQ>> \o <<" ","M","E","S","S","A","G","E"," ">> \o <<DQ>> \o msg \o <<DQ>>

\* The commands emitted for a template that declares none
DefaultRunLines ==
    << RunLine(<<"c","o","m","p","o","s","e","r"," ","i","n","s","t","a","l","l">>, <<"I","n","s","t","a","l","l","i","n","g"," ","P","H","P"," ","d","e","p","e","n","d","e","n","c","i","e","s",".",".",".">>),
       RunLine(<<"p","h","p"," ","a","r","t","i","s","a","n"," ","k","e","y",":","g","e","n","e","r","a","t","e">>, <<"G","e","n","e","r","a","t","i","n","g"," ","a","p","p"," ","k","e","y",".",".",".">>),
       RunLine(<<"p","h","p"," ","a","r","t","i","s","a","n"," ","m","i","g","r","a","t","e"," ","-","-","s","e","e","d">>, <<"S","e","t","t","i","n","g"," ","u","p"," ","d","a","t","a","b","a","s","e",".",".",".">>),
       RunLine(<<"n","p","m"," ","i","n","s","t","a","l","l">>, <<"I","n","s","t","a","l","l","i","n","g"," ","N","o","d","e"," ","d","e","p","e","n","d","e","n","c","i","e","s",".",".",".">>),
       RunLine(<<"n","p","m"," ","r","u","n"," ","b","u","i","l","d">>, <<"B","u","i","l","d","i","n","g"," ","a","s","s","e","t","s",".",".",".">>) >>

\* A banner of three comment lines; the box-drawing glyphs are written "="
Banner(title) == << <<"#"," ","=","=","=">>, <<"#"," ">> \o title, <<"#"," ","=","=","=">> >>

\* The lines of the variable sections
VariableLines(t) ==
    LET groupLines(groupKey) ==
            LET vs == groupedVars(t, groupKey)
            IN  IF Len(vs) = 0 THEN <<>>
                ELSE << <<"#"," ","*"," ">> \o ToUpperCase(groupDescription(groupKey)),
                        <<"#"," ">> \o Repeat("-", 40) >>
                     \o SeqMap(LAMBDA v : GroupedAskLine(v, groupKey), vs)
                     \o << <<>> >>
        other == groupedVars(t, <<"o","t","h","e","r">>)
        otherVars == IF Len(other) > 0 THEN other
                     ELSE groupedVars(t, <<"G","e","n","e","r","a","l"," ","S","e","t","t","i","n","g","s">>)
    IN  Flatten(SeqMap(groupLines, groupOrder))
        \o (IF Len(otherVars) > 0
            THEN << <<"#"," ","*"," ","O","T","H","E","R"," ","S","E","T","T","I","N","G","S">>, <<"#"," ">> \o Repeat("-", 40) >>
                 \o SeqMap(OtherAskLine, otherVars)
                 \o << <<>> >>
            ELSE <<>>)

\* The REPLACE lines of the ON INSTALL block
ReplacementLines(t) ==
    LET groupLines(groupKey) ==
            LET rs == replacementsByGroup(t, groupKey)
            IN  IF Len(rs) = 0 THEN <<>>
                ELSE << <<" "," "," "," ","#"," ","*"," ">> \o groupDescription(groupKey) >>
                     \o SeqMap(ReplaceLine, rs)
                     \o << <<>> >>
    IN  Flatten(SeqMap(groupLines, groupOrder \o << <<"o","t","h","e","r">> >>))

\* template.onInstall || []
CommandsOf(t) == IF t.onInstall = Undef THEN <<>> ELSE t.onInstall

RunLines(t) ==
    IF Len(CommandsOf(t)) = 0 THEN DefaultRunLines
    ELSE SeqMap(LAMBDA cmd : RunLine(cmd, RunMessage(cmd)), CommandsOf(t))

HintLines(t) ==
    IF t.aiHints # Undef /\ Len(t.aiHints) > 0
    THEN Banner(<<"P","R","O","J","E","C","T"," ","A","N","A","L","Y","S","I","S">>)
         \o SeqMap(LAMBDA hint : <<"#"," ">> \o hint, t.aiHints)
         \o << <<>> >>
    ELSE <<>>

\* template.name.toLowerCase().replace(/\s+/g, '-')
RECURSIVE DashSpaces(_, _)
DashSpaces(s, i) ==
    IF i > Len(s) THEN <<>>
    ELSE IF s[i] \in WhiteSpace
         THEN <<"-">> \o DashSpaces(s, TrimStartIdx(s, i))
         ELSE <<s[i]>> \o DashSpaces(s, i + 1)

generateKloreLines(t) ==
    << <<"#"," ">> \o t.name \o <<" ","T","e","m","p","l","a","t","e">>,
       <<"#"," ","G","e","n","e","r","a","t","e","d"," ","b","y"," ","K","l","o","r","e"," ","A","I"," ","-"," ","C","o","m","p","r","e","h","e","n","s","i","v","e"," ","T","e","m","p","l","a","t","i","z","a","t","i","o","n">>,
       <<>>,
       <<"N","A","M","E"," ">> \o <<DQ>> \o DashSpaces(ToLowerCase(t.name), 1) \o <<"-","t","e","m","p","l","a","t","e">> \o <<DQ>> >>
    \o (IF Truthy(t.version) THEN << <<"V","E","R","S","I","O","N"," ">> \o <<DQ>> \o t.version \o <<DQ>> >> ELSE <<>>)
    \o (IF Truthy(t.framework) THEN << <<"F","R","A","M","E","W","O","R","K"," ">> \o <<DQ>> \o t.framework \o <<DQ>> >> ELSE <<>>)
    \o << <<>> >>
    \o HintLines(t)
    \o Banner(<<"T","E","M","P","L","A","T","E"," ","V","A","R","I","A","B","L","E","S">>)
    \o << <<>> >>
    \o VariableLines(t)
    \o Banner(<<"R","E","P","L","A","C","E","M","E","N","T","S">>)
    \o << <<>>, <<"O","N"," ","I","N","S","T","A","L","L">>, <<>>,
          <<" "," "," "," ","#"," ","S","e","t","u","p"," ","e","n","v","i","r","o","n","m","e","n","t">>,
          <<" "," "," "," ","C","O","P","Y"," ","\"",".","e","n","v",".","e","x","a","m","p","l","e","\""," ","T","O"," ","\"",".","e","n","v","\"">>,
          <<>> >>
    \o ReplacementLines(t)
    \o << <<" "," "," "," ","#"," ","R","u","n"," ","s","e","t","u","p"," ","c","o","m","m","a","n","d","s">> >>
    \o RunLines(t)
    \o << <<>>, <<"E","N","D">>, <<>> >>
    \o Banner(<<"T","e","m","p","l","a","t","e"," ","r","e","a","d","y","!">>)

generateKlore(t) == Join(generateKloreLines(t), <<NL>>)

---------------------------------------------------------------------------
(* KloreParser (template/kloreParser.ts)                                   *)

LineTerminators == {"\n", "\r"}

\* The position of the first c in s from position i on; 0 for none
RECURSIVE CharFrom(_, _, _)
CharFrom(s, c, i) ==
    IF i > Len(s) THEN 0 ELSE IF s[i] = c THEN i ELSE CharFrom(s, c, i + 1)

\* The position after the run of characters satisfying In(_) that starts at i
RECURSIVE RunEnd(_, _, _)
RunEnd(In(_), s, i) ==
    IF i <= Len(s) /\ In(s[i]) THEN RunEnd(In, s, i + 1) ELSE i

IsSpace(c) == c \in WhiteSpace
NotSpace(c) == c \notin WhiteSpace

\* tokenize: the matches of /"[^"]*"|'[^']*'|\[.*?\]|\S+/g; Tokens[i] is the list
\* of the matches from position i on
tokenize(line) ==
    LET Tokens[i \in 1..(Len(line) + 1)] ==
            IF i > Len(line) THEN <<>>
            ELSE LET c == line[i]
                     closeDQ == IF c = DQ THEN CharFrom(line, DQ, i + 1) ELSE 0
                     closeSQ == IF c = SQ THEN CharFrom(line, SQ, i + 1) ELSE 0
                     bracket == IF c = "[" THEN CharFrom(line, "]", i + 1) ELSE 0
                     closeBr == IF bracket # 0
                                   /\ \A k \in (i + 1)..(bracket - 1) :
                                         line[k] \notin LineTerminators
                                THEN bracket ELSE 0
                     wordEnd == RunEnd(NotSpace, line, i)
                 IN  IF closeDQ # 0 THEN <<Sub(line, i, closeDQ)>> \o Tokens[closeDQ + 1]
                     ELSE IF closeSQ # 0 THEN <<Sub(line, i, closeSQ)>> \o Tokens[closeSQ + 1]
                     ELSE IF closeBr # 0 THEN <<Sub(line, i, closeBr)>> \o Tokens[closeBr + 1]
                     ELSE IF wordEnd > i THEN <<Sub(line, i, wordEnd - 1)>> \o Tokens[wordEnd]
                     ELSE Tokens[i + 1]
    IN  Tokens[1]

\* extractString: group 1 or 2 of the first match of /"([^"]*)"|'([^']*)'/, else ''
RECURSIVE ExtractStringFrom(_, _)
ExtractStringFrom(line, i) ==
    IF i > Len(line) THEN <<>>
    ELSE LET c == line[i]
             close == IF c \in {DQ, SQ} THEN CharFrom(line, c, i + 1) ELSE 0
         IN  IF close # 0 THEN Sub(line, i + 1, close - 1)
             ELSE ExtractStringFrom(line, i + 1)

extractString(line) == ExtractStringFrom(line, 1)

\* s.replace(/["']/g, '')
StripQuotes(s) == SelectSeq(s, LAMBDA c : c \notin {DQ, SQ})

\* The text between the first '[' that a ']' follows and that ']': group 1 of
\* /\[([^\]]*)\]/; Undef when nothing matches
BracketContent(s) ==
    LET open == CharFrom(s, "[", 1)
        close == IF open = 0 THEN 0 ELSE CharFrom(s, "]", open + 1)
    IN  IF close = 0 THEN Undef ELSE Sub(s, open + 1, close - 1)

extractArray(line) ==
    LET inner == BracketContent(line)
    IN  IF inner = Undef THEN <<>>
        ELSE SelectSeq(SeqMap(LAMBDA x : StripQuotes(Trim(x)), Split(inner, ",")),
                       LAMBDA x : Len(x) > 0)

\* tokens[k] of the code (0-based k), <<>> for a missing token
TokenAt(tokens, k) == IF k + 1 <= Len(tokens) THEN tokens[k + 1] ELSE <<>>

\* What a call leaves in place of its value when it throws
Thrown == [thrown |-> TRUE]

\* A parseVariable that reads tokens[2] without the optional chaining
parseVariableUnguarded(tokens) ==
    IF Len(tokens) < 3 THEN Thrown
    ELSE [ name |-> TokenAt(tokens, 1),
           type |-> ToUpperCase(tokens[3]),
           defaultValue |-> StripQuotes(TokenAt(tokens, 3)),
           required |-> \E i \in 1..Len(tokens) : ToUpperCase(tokens[i]) = <<"R","E","Q","U","I","R","E","D">> ]

parseVariable(tokens) ==
    [ name |-> TokenAt(tokens, 1),
      type |-> IF Len(tokens) >= 3 THEN ToUpperCase(tokens[3]) ELSE <<"S","T","R","I","N","G">>,
      defaultValue |-> StripQuotes(TokenAt(tokens, 3)),
      required |-> \E i \in 1..Len(tokens) : ToUpperCase(tokens[i]) = <<"R","E","Q","U","I","R","E","D">> ]

\* The keyword kw occurs at position i of s, in any letter case
KeywordAt(kw, s, i) ==
    /\ i + Len(kw) - 1 <= Len(s)
    /\ ToUpperCase(Sub(s, i, i + Len(kw) - 1)) = kw

\* Group 1 of /^ASK\s+(\w+)/i, <<>> when it does not match
AskName(line) ==
    LET afterWs == RunEnd(IsSpace, line, 4)
        nameEnd == RunEnd(IsWord, line, afterWs)
    IN  IF KeywordAt(<<"A","S","K">>, line, 1) /\ afterWs > 4 /\ nameEnd > afterWs
        THEN Sub(line, afterWs, nameEnd - 1) ELSE <<>>

\* Group 1 of the first match of /DEFAULT\s+"([^"]*)"/i, <<>> when none
RECURSIVE AskDefaultFrom(_, _)
AskDefaultFrom(line, i) ==
    IF i + 6 > Len(line) THEN <<>>
    ELSE LET afterWs == RunEnd(IsSpace, line, i + 7)
             close == IF afterWs <= Len(line) /\ line[afterWs] = DQ
                      THEN CharFrom(line, DQ, afterWs + 1) ELSE 0
         IN  IF KeywordAt(<<"D","E","F","A","U","L","T">>, line, i) /\ afterWs > i + 7 /\ close # 0
             THEN Sub(line, afterWs + 1, close - 1)
             ELSE AskDefaultFrom(line, i + 1)

\* The type parseAsk infers from the variable's name
InferType(name) ==
    LET lower == ToLowerCase(name)
    IN  IF Includes(lower, <<"c","o","l","o","r">>) THEN <<"C","O","L","O","R">>
        ELSE IF Includes(lower, <<"e","m","a","i","l">>) THEN <<"E","M","A","I","L">>
        ELSE IF Includes(lower, <<"p","h","o","n","e">>) THEN <<"P","H","O","N","E">>
        ELSE IF Includes(lower, <<"u","r","l">>) THEN <<"U","R","L">>
        ELSE <<"S","T","R","I","N","G">>

parseAsk(line) ==
    LET name == AskName(line)
    IN  [ name |-> name,
          type |-> InferType(name),
          defaultValue |-> AskDefaultFrom(line, 1),
          required |-> Includes(ToUpperCase(line), <<"R","E","Q","U","I","R","E","D">>) ]

parseGroup(tokens) ==
    LET inner == BracketContent(Join(tokens, <<SP>>))
    IN  [ name |-> TokenAt(tokens, 1),
          variables |-> IF inner = Undef THEN <<>>
                        ELSE SeqMap(Trim, Split(inner, ",")) ]

\* The catch-all file pattern list
AllFiles == << <<"*","*","/","*">> >>
NoOpReplacement == [original |-> <<>>, variable |-> <<>>, filePatterns |-> AllFiles]

\* parseReplacement's scan for the quote that ends the original: its position
\* in afterReplace, 0 when the literal is not terminated
RECURSIVE OriginalEndFrom(_, _, _)
OriginalEndFrom(afterReplace, i, escaped) ==
    IF i > Len(afterReplace) THEN 0
    ELSE IF afterReplace[i] = BS /\ ~escaped THEN OriginalEndFrom(afterReplace, i + 1, TRUE)
    ELSE IF afterReplace[i] = DQ /\ ~escaped THEN i
    ELSE OriginalEndFrom(afterReplace, i + 1, FALSE)

\* Group 1 of the first match of /WITH\s+["']?\{\{\s*(\w+)\s*\}\}["']?/i, <<>> when none
RECURSIVE WithVariableFrom(_, _)
WithVariableFrom(s, i) ==
    IF i + 3 > Len(s) THEN <<>>
    ELSE LET afterWs == RunEnd(IsSpace, s, i + 4)
             afterQ == IF afterWs <= Len(s) /\ s[afterWs] \in {DQ, SQ}
                       THEN afterWs + 1 ELSE afterWs
             nameStart == RunEnd(IsSpace, s, afterQ + 2)
             nameEnd == RunEnd(IsWord, s, nameStart)
             closing == RunEnd(IsSpace, s, nameEnd)
         IN  IF /\ KeywordAt(<<"W","I","T","H">>, s, i)
                /\ afterWs > i + 4
                /\ IsPrefixAt(<<"{","{">>, s, afterQ)
                /\ nameEnd > nameStart
                /\ IsPrefixAt(<<"}","}">>, s, closing)
             THEN Sub(s, nameStart, nameEnd - 1)
             ELSE WithVariableFrom(s, i + 1)

\* Group 1 of the first match of /IN\s+(.+)$/i, Undef when none
RECURSIVE InPatternsFrom(_, _)
InPatternsFrom(s, i) ==
    IF i + 1 > Len(s) THEN Undef
    ELSE LET wsEnd == RunEnd(IsSpace, s, i + 2)
             \* \s+ gives a blank back to (.+) when the blanks reach the end
             start == IF wsEnd > Len(s) THEN wsEnd - 1 ELSE wsEnd
         IN  IF /\ KeywordAt(<<"I","N">>, s, i)
                /\ wsEnd > i + 2
                /\ start > i + 2
                /\ \A k \in start..Len(s) : s[k] \notin LineTerminators
             THEN Sub(s, start, Len(s))
             ELSE InPatternsFrom(s, i + 1)

\* The matches of /"[^"]+"/g, each with its quotes removed
RECURSIVE QuotedPatternsFrom(_, _)
QuotedPatternsFrom(s, i) ==
    IF i > Len(s) THEN <<>>
    ELSE LET close == IF s[i] = DQ /\ i + 1 <= Len(s) /\ s[i + 1] # DQ
                      THEN CharFrom(s, DQ, i + 2) ELSE 0
         IN  IF close # 0 THEN <<Sub(s, i + 1, close - 1)>> \o QuotedPatternsFrom(s, close + 1)
             ELSE QuotedPatternsFrom(s, i + 1)

parseReplacement(line) ==
    IF ~Includes(line, <<"R","E","P","L","A","C","E">>) \/ ~Includes(line, <<"W","I","T","H">>) THEN NoOpReplacement
    ELSE LET afterReplace == Trim(Sub(line, IndexOf(line, <<"R","E","P","L","A","C","E">>) + 7, Len(line)))
             originalEnd == IF StartsWith(afterReplace, <<DQ>>)
                            THEN OriginalEndFrom(afterReplace, 2, FALSE) ELSE 0
             remaining == Sub(afterReplace, originalEnd + 1, Len(afterReplace))
             patterns == InPatternsFrom(remaining, 1)
             quoted == IF patterns = Undef THEN <<>> ELSE QuotedPatternsFrom(patterns, 1)
         IN  IF originalEnd = 0 THEN NoOpReplacement
             ELSE [ original |-> UnescapeOriginal(Sub(afterReplace, 2, originalEnd - 1)),
                    variable |-> WithVariableFrom(remaining, 1),
                    filePatterns |-> IF Len(quoted) > 0 THEN quoted ELSE AllFiles ]

\* The template parse starts from
EmptyTemplate ==
    [ name |-> <<>>, version |-> <<"1",".","0",".","0">>, author |-> <<>>, description |-> <<>>,
      framework |-> Undef, requires |-> Undef,
      variables |-> <<>>, groups |-> <<>>, replacements |-> <<>>,
      conditionals |-> <<>>, onInstall |-> <<>>, aiHints |-> <<>> ]

\* parseOnInstall's loop from line cur on: the cursor it stops at (the END line,
\* or past the last line) and the template
RECURSIVE OnInstallFrom(_, _, _)
OnInstallFrom(lines, cur, t) ==
    IF cur > Len(lines) THEN [cur |-> cur, t |-> t]
    ELSE LET line == lines[cur]
             trimmed == Trim(line)
             upperLine == ToUpperCase(trimmed)
             command == extractString(line)
         IN  IF ToUpperCase(line) = <<"E","N","D">> THEN [cur |-> cur, t |-> t]
             ELSE IF StartsWith(upperLine, <<"R","U","N">>)
             THEN OnInstallFrom(lines, cur + 1,
                     IF Truthy(command)
                     THEN [t EXCEPT !.onInstall = Append(@, command)] ELSE t)
             ELSE IF StartsWith(upperLine, <<"R","E","P","L","A","C","E">>)
             THEN OnInstallFrom(lines, cur + 1,
                     [t EXCEPT !.replacements = Append(@, parseReplacement(trimmed))])
             ELSE OnInstallFrom(lines, cur + 1, t)

\* A parseOnInstall that leaves the cursor on the line after END
parseOnInstallPastEnd(lines, cur, t) ==
    LET block == OnInstallFrom(lines, cur + 1, t)
    IN  [cur |-> block.cur + 1, t |-> block.t]

parseOnInstall(lines, cur, t) == OnInstallFrom(lines, cur + 1, t)

\* parseLine on the line under the cursor: the cursor and the template after it
parseLine(lines, cur, t) ==
    LET line == lines[cur]
        tokens == tokenize(line)
        command == IF Len(tokens) = 0 THEN <<>> ELSE ToUpperCase(tokens[1])
        same(u) == [cur |-> cur, t |-> u]
    IN  CASE command = <<"N","A","M","E">> -> same([t EXCEPT !.name = extractString(line)])
          [] command = <<"V","E","R","S","I","O","N">> -> same([t EXCEPT !.version = extractString(line)])
          [] command = <<"A","U","T","H","O","R">> -> same([t EXCEPT !.author = extractString(line)])
          [] command = <<"D","E","S","C","R","I","P","T","I","O","N">> -> same([t EXCEPT !.description = extractString(line)])
          [] command = <<"F","R","A","M","E","W","O","R","K">> -> same([t EXCEPT !.framework = extractString(line)])
          [] command = <<"R","E","Q","U","I","R","E","S">> -> same([t EXCEPT !.requires = extractArray(line)])
          [] command = <<"V","A","R">> -> same([t EXCEPT !.variables = Append(@, parseVariable(tokens))])
          [] command = <<"A","S","K">> -> same([t EXCEPT !.variables = Append(@, parseAsk(line))])
          [] command = <<"G","R","O","U","P">> -> same([t EXCEPT !.groups = Append(@, parseGroup(tokens))])
          [] command = <<"R","E","P","L","A","C","E">> -> same([t EXCEPT !.replacements = Append(@, parseReplacement(line))])
          [] command = <<"A","I","_","H","I","N","T">> -> same([t EXCEPT !.aiHints = Append(@, extractString(line))])
          [] command \in {<<"O","N","_","I","N","S","T","A","L","L">>, <<"O","N">>} -> parseOnInstall(lines, cur, t)
          [] OTHER -> same(t)

\* parse's preprocessing: split into lines, trim, drop blank and comment lines
Preprocess(content) ==
    SelectSeq(SeqMap(Trim, Split(content, NL)),
              LAMBDA l : Len(l) > 0 /\ ~StartsWith(l, <<"#">>))

\* parse's loop from line cur on
RECURSIVE ParseFrom(_, _, _)
ParseFrom(lines, cur, t) ==
    IF cur > Len(lines) THEN t
    ELSE LET after == parseLine(lines, cur, t)
         IN  ParseFrom(lines, after.cur + 1, after.t)

parseKlore(content) == ParseFrom(Preprocess(content), 1, EmptyTemplate)

---------------------------------------------------------------------------
(* applyReplacements (core/template/installer.ts)                          *)

\* The characters of the class /[.*+?^${}()|[\]\\]/
RegexSpecials == {".", "*", "+", "?", "^", "$", "{", "}", "(", ")", "|", "[", "]", BS}

\* A variant whose character class misses the dot
EscapeRegExpNoDot(original) ==
    Flatten([i \in 1..Len(original) |->
                IF original[i] \in RegexSpecials \ {"."} THEN <<BS, original[i]>>
                ELSE <<original[i]>>])

\* replacement.original.replace(/[.*+?^${}()|[\]\\]/g, '\\$&')
EscapeRegExp(original) ==
    Flatten([i \in 1..Len(original) |->
                IF original[i] \in RegexSpecials THEN <<BS, original[i]>>
                ELSE <<original[i]>>])

\* new RegExp(source, 'g') as the sequence of its atoms.  A backslash makes the
\* next character a literal, an unescaped dot matches any character but a line
\* terminator, any other character matches itself; a source that EscapeRegExp
\* produced holds no other operator.
RECURSIVE RegExpFrom(_, _)
RegExpFrom(source, i) ==
    IF i > Len(source) THEN <<>>
    ELSE IF source[i] = BS /\ i < Len(source)
         THEN <<[any |-> FALSE, ch |-> source[i + 1]]>> \o RegExpFrom(source, i + 2)
    ELSE IF source[i] = "."
         THEN <<[any |-> TRUE, ch |-> "."]>> \o RegExpFrom(source, i + 1)
    ELSE <<[any |-> FALSE, ch |-> source[i]]>> \o RegExpFrom(source, i + 1)

RegExp(source) == RegExpFrom(source, 1)

AtomMatches(atom, c) == IF atom.any THEN c \notin LineTerminators ELSE c = atom.ch

\* The regular expression matches s at position i
RegExpMatchesAt(regex, s, i) ==
    /\ i + Len(regex) - 1 <= Len(s)
    /\ \A k \in 1..Len(regex) : AtomMatches(regex[k], s[i + k - 1])

\* The text String.prototype.replace inserts for one match: $$ is a dollar sign,
\* $& the matched text, $` the text before the match, $' the text after it; a
\* dollar sign before anything else stays (the expression has no groups)
RECURSIVE SubstituteFrom(_, _, _, _, _)
SubstituteFrom(value, i, matched, before, after) ==
    IF i > Len(value) THEN <<>>
    ELSE IF value[i] = "$" /\ i < Len(value) /\ value[i + 1] \in {"$", "&", "`", "'"}
         THEN (CASE value[i + 1] = "$" -> <<"$">>
                 [] value[i + 1] = "&" -> matched
                 [] value[i + 1] = "`" -> before
                 [] value[i + 1] = "'" -> after)
              \o SubstituteFrom(value, i + 2, matched, before, after)
    ELSE <<value[i]>> \o SubstituteFrom(value, i + 1, matched, before, after)

\* result.replace(regex, value) for a global regex that matches no empty text
RECURSIVE RegExpReplaceFrom(_, _, _, _)
RegExpReplaceFrom(s, regex, value, i) ==
    IF i > Len(s) THEN <<>>
    ELSE IF RegExpMatchesAt(regex, s, i)
         THEN SubstituteFrom(value, 1, Sub(s, i, i + Len(regex) - 1),
                             Sub(s, 1, i - 1), Sub(s, i + Len(regex), Len(s)))
              \o RegExpReplaceFrom(s, regex, value, i + Len(regex))
    ELSE <<s[i]>> \o RegExpReplaceFrom(s, regex, value, i + 1)

\* A turn that leaves out a replacement whose filePatterns is not the catch-all
ApplyOneScoped(result, replacement, values) ==
    IF /\ replacement.variable \in DOMAIN values /\ Truthy(replacement.original)
       /\ replacement.filePatterns = AllFiles
    THEN RegExpReplaceFrom(result, RegExp(EscapeRegExp(replacement.original)),
                           values[replacement.variable], 1)
    ELSE result

\* One turn of applyReplacements' loop
ApplyOne(result, replacement, values) ==
    IF replacement.variable \in DOMAIN values /\ Truthy(replacement.original)
    THEN RegExpReplaceFrom(result, RegExp(EscapeRegExp(replacement.original)),
                           values[replacement.variable], 1)
    ELSE result

\* A loop that takes the replacements from the last to the first
RECURSIVE ApplyFromReversed(_, _, _, _)
ApplyFromReversed(result, replacements, values, k) ==
    IF k > Len(replacements) THEN result
    ELSE ApplyOne(ApplyFromReversed(result, replacements, values, k + 1),
                  replacements[k], values)

RECURSIVE ApplyFrom(_, _, _, _)
ApplyFrom(result, replacements, values, k) ==
    IF k > Len(replacements) THEN result
    ELSE ApplyFrom(ApplyOne(result, replacements[k], values), replacements, values, k + 1)

applyReplacements(content, replacements, values) == ApplyFrom(content, replacements, values, 1)

---------------------------------------------------------------------------
(* promptVariables and validateInput (core/template/installer.ts)          *)

\* The value of a promise that resolved to null
Null == (<<"null">> :> <<>>)

HexDigits == Digits \cup {"a","b","c","d","e","f","A","B","C","D","E","F"}

\* /^[^\s@]+@[^\s@]+\.[^\s@]+$/.test(value)
IsEmail(value) ==
    LET at == CharFrom(value, "@", 1)
    IN  /\ at > 1
        /\ CharFrom(value, "@", at + 1) = 0
        /\ \A i \in 1..Len(value) : value[i] \notin WhiteSpace
        /\ \E d \in (at + 2)..(Len(value) - 1) : value[d] = "."

\* /^#([0-9A-Fa-f]{3}|[0-9A-Fa-f]{6})$/.test(value)
IsHexColor(value) ==
    /\ Len(value) \in {4, 7}
    /\ value[1] = "#"
    /\ \A i \in 2..Len(value) : value[i] \in HexDigits

\* /^[\d\s\-\+\(\)]+$/.test(value)
IsPhone(value) ==
    /\ Len(value) > 0
    /\ \A i \in 1..Len(value) : value[i] \in Digits \cup WhiteSpace \cup {"-", "+", "(", ")"}

\* new URL(value) does not throw: the text starts with a scheme and a colon
\* and something follows (the URL parser itself is not part of the repository)
IsUrl(value) ==
    LET colon == CharFrom(value, ":", 1)
    IN  /\ colon > 1
        /\ colon < Len(value)
        /\ IsLower(ToLowerChar(value[1]))
        /\ \A i \in 2..(colon - 1) : IsWord(value[i]) \/ value[i] \in {"+", "-", "."}

\* validateInput: the error message, or Undef when the value is accepted
validateInput(value, variable) ==
    IF variable.required /\ ~Truthy(Trim(value)) THEN <<"T","h","i","s"," ","f","i","e","l","d"," ","i","s"," ","r","e","q","u","i","r","e","d">>
    ELSE IF ~Truthy(Trim(value)) THEN Undef
    ELSE IF variable.type = <<"E","M","A","I","L">> /\ ~IsEmail(value)
         THEN <<"P","l","e","a","s","e"," ","e","n","t","e","r"," ","a"," ","v","a","l","i","d"," ","e","m","a","i","l"," ","a","d","d","r","e","s","s">>
    ELSE IF variable.type = <<"C","O","L","O","R">> /\ ~IsHexColor(value)
         THEN <<"P","l","e","a","s","e"," ","e","n","t","e","r"," ","a"," ","v","a","l","i","d"," ","h","e","x"," ","c","o","l","o","r"," ","(","e",".","g",".",","," ","#","F","F","7","8","0","0",")">>
    ELSE IF variable.type = <<"P","H","O","N","E">> /\ ~IsPhone(value)
         THEN <<"P","l","e","a","s","e"," ","e","n","t","e","r"," ","a"," ","v","a","l","i","d"," ","p","h","o","n","e"," ","n","u","m","b","e","r">>
    ELSE IF variable.type = <<"U","R","L">> /\ ~IsUrl(value) /\ value # <<"#">>
         THEN <<"P","l","e","a","s","e"," ","e","n","t","e","r"," ","a"," ","v","a","l","i","d"," ","U","R","L">>
    ELSE Undef

\* promptVariables: the variables with the later occurrences of a name removed
uniqueVariables(t) ==
    LET keep(i) == \A j \in 1..(i - 1) : t.variables[j].name # t.variables[i].name
        RECURSIVE From(_)
        From(i) == IF i > Len(t.variables) THEN <<>>
                   ELSE (IF keep(i) THEN <<t.variables[i]>> ELSE <<>>) \o From(i + 1)
    IN  From(1)

\* promptVariables' own group order
promptGroupOrder == << <<"b","r","a","n","d","i","n","g">>, <<"c","o","l","o","r","s">>, <<"c","o","n","t","a","c","t">>, <<"c","o","n","t","e","n","t">>, <<"s","o","c","i","a","l">>,
                       <<"i","n","s","t","i","t","u","t","i","o","n">>, <<"l","e","g","a","l">> >>

\* grouped.get(groupName): the unique variables whose first group has that name
grouped(t, groupName) ==
    SelectSeq(uniqueVariables(t),
              LAMBDA v : LET g == FindGroup(t.groups, v.name)
                         IN  g # 0 /\ t.groups[g].name = groupName)

ungrouped(t) ==
    SelectSeq(uniqueVariables(t), LAMBDA v : FindGroup(t.groups, v.name) = 0)

\* The variables promptVariables visits, in the order it visits them
PromptOrder(t) ==
    Flatten(SeqMap(LAMBDA groupName : grouped(t, groupName), promptGroupOrder))
    \o ungrouped(t)

\* A promptVariables that returns the values entered before the cancel
OnCancelPartial(partial) == partial

\* What promptVariables returns when a prompt is cancelled
OnCancel(partial) == Null

\* p.text: what the prompt resolves to for an accepted input (the default
\* value stands in for an empty input)
TextResult(input, variable) ==
    IF Truthy(input) THEN input ELSE DefaultOrEmpty(variable)

\* (result as string) || variable.defaultValue || ''
PromptedValue(input, variable) ==
    IF Truthy(TextResult(input, variable)) THEN TextResult(input, variable)
    ELSE DefaultOrEmpty(variable)

\* The install command's --defaults map: prefilledValues[v.name] = v.defaultValue || ''
DefaultValues(t) ==
    [n \in {t.variables[i].name : i \in 1..Len(t.variables)} |->
        LET last == CHOOSE i \in 1..Len(t.variables) :
                        /\ t.variables[i].name = n
                        /\ \A j \in (i + 1)..Len(t.variables) : t.variables[j].name # n
        IN  DefaultOrEmpty(t.variables[last])]

---------------------------------------------------------------------------
(* copyWithReplacements (core/template/installer.ts)                       *)

excludeNames == { <<".","k","l","o","r","e">>, <<"n","o","d","e","_","m","o","d","u","l","e","s">>, <<"v","e","n","d","o","r">>, <<".","g","i","t">> }

textExtensions ==
    { <<".","p","h","p">>, <<".","j","s">>, <<".","t","s">>, <<".","j","s","x">>, <<".","t","s","x">>, <<".","v","u","e">>, <<".","s","v","e","l","t","e">>,
      <<".","h","t","m","l">>, <<".","h","t","m">>, <<".","c","s","s">>, <<".","s","c","s","s">>, <<".","l","e","s","s">>,
      <<".","j","s","o","n">>, <<".","x","m","l">>, <<".","y","a","m","l">>, <<".","y","m","l">>, <<".","t","o","m","l">>,
      <<".","m","d">>, <<".","t","x","t">>, <<".","e","n","v",".","e","x","a","m","p","l","e">>, <<".","g","i","t","i","g","n","o","r","e">>,
      <<".","b","l","a","d","e",".","p","h","p">>, <<".","t","w","i","g">>, <<".","e","j","s">>, <<".","p","u","g">> }

\* The position of the last c in s, 0 for none
RECURSIVE LastCharFrom(_, _, _)
LastCharFrom(s, c, i) ==
    IF i < 1 THEN 0 ELSE IF s[i] = c THEN i ELSE LastCharFrom(s, c, i - 1)

\* path.extname(name): from the last dot on; empty when the name has no dot or
\* only starts with one
extname(name) ==
    LET dot == LastCharFrom(name, ".", Len(name))
    IN  IF dot <= 1 THEN <<>> ELSE Sub(name, dot, Len(name))

isTextFile(name) ==
    \/ ToLowerCase(extname(name)) \in textExtensions
    \/ EndsWith(name, <<".","b","l","a","d","e",".","p","h","p">>)
    \/ name = <<".","e","n","v",".","e","x","a","m","p","l","e">>

\* A copy that sends every file through applyReplacements
CopiedContentReplaced(content, replacements, vals) ==
    applyReplacements(content, replacements, vals)

\* What fs.promises.copyFile leaves at the destination
CopiedContent(content, replacements, vals) == content

\* A count of every text file, changed or not
CountReplacedAlways(content, replaced, replacementsApplied) == replacementsApplied + 1

\* content !== replaced: the count of changed files after one text file
CountReplaced(content, replaced, replacementsApplied) ==
    IF content # replaced THEN replacementsApplied + 1 ELSE replacementsApplied

---------------------------------------------------------------------------
(* installTemplate (core/template/installer.ts)                            *)

InstallResult(success, filesCreated, replacementsApplied, errors) ==
    [success |-> success, filesCreated |-> filesCreated,
     replacementsApplied |-> replacementsApplied, errors |-> errors]

\* A check with the sense of the force flag inverted
OutputBlockedForced(exists, force) == exists /\ force

\* fs.existsSync(options.outputPath) && !options.force
OutputBlocked(exists, force) == exists /\ ~force

\* A catch that reports the aborted walk as a success
CopyErrorResultOk(message) == InstallResult(TRUE, 0, 0, <<message>>)

\* The result returned from the catch around copyWithReplacements
CopyErrorResult(message) == InstallResult(FALSE, 0, 0, <<message>>)

---------------------------------------------------------------------------
(* SpecEsc: escape then unescape one original                              *)

MaxOrigLen == 3
EscAlphabet == {BS, DQ, NL, "n", "a"}

InitEsc ==
    /\ esc \in [pc : {"input"}, original : Strings(EscAlphabet, MaxOrigLen),
                escaped : {<<>>}, unescaped : {<<>>}]
    /\ rt = Off
    /\ ap = Off
    /\ ps = Off
    /\ tw = Off
    /\ cu = Off
    /\ InstallOff

DoEscape ==
    /\ esc.pc = "input"
    /\ esc' = [esc EXCEPT !.pc = "escaped", !.escaped = EscapeOriginal(esc.original)]
    /\ UNCHANGED <<rt, ap, ps, tw, cu, instVars>>

DoUnescape ==
    /\ esc.pc = "escaped"
    /\ esc' = [esc EXCEPT !.pc = "unescaped", !.unescaped = UnescapeOriginal(esc.escaped)]
    /\ UNCHANGED <<rt, ap, ps, tw, cu, instVars>>

NextEsc == DoEscape \/ DoUnescape

SpecEsc == InitEsc /\ [][NextEsc]_vars

---------------------------------------------------------------------------
(* SpecRT: generate the definition of one template, then parse it          *)

MaxVars == 2
MaxRepl == 1

\* All sequences of at most n elements of a set
RECURSIVE SeqsUpTo(_, _)
SeqsUpTo(S, n) ==
    IF n = 0 THEN {<<>>}
    ELSE LET shorter == SeqsUpTo(S, n - 1)
         IN  shorter \cup {Append(q, x) : q \in shorter, x \in S}

Var(name, type, defaultValue, required) ==
    [name |-> name, type |-> type, defaultValue |-> defaultValue, required |-> required]

VarPool ==
    { Var(<<"e","m","a","i","l">>, <<"E","M","A","I","L">>, <<"a","@","b",".","c">>, TRUE),
      Var(<<"c","o","u","n","t">>, <<"N","U","M","B","E","R">>, <<"5">>, FALSE),
      Var(<<"t","i","t","l","e">>, <<"S","T","R","I","N","G">>, <<>>, FALSE),
      Var(<<"t","i","t","l","e">>, <<"S","T","R","I","N","G">>, <<"s","a","y"," ","\"","h","i","\"">>, TRUE) }

GroupPool ==
    { <<>>,
      << [name |-> <<"m","i","s","c">>, variables |-> << <<"t","i","t","l","e">> >>] >>,
      << [name |-> <<"b","r","a","n","d","i","n","g">>, variables |-> << <<"t","i","t","l","e">>, <<"c","o","u","n","t">> >>],
         [name |-> <<"c","o","n","t","a","c","t">>, variables |-> << <<"e","m","a","i","l">>, <<"t","i","t","l","e">> >>] >> }

Repl(original, variable, filePatterns) ==
    [original |-> original, variable |-> variable, filePatterns |-> filePatterns]

ReplPool ==
    { Repl(<<"A","c","m","e">>, <<"e","m","a","i","l">>, AllFiles),
      Repl(<<"a", NL, "b">>, <<"t","i","t","l","e">>, << <<"a",".","t","x","t">>, <<"b",".","t","x","t">> >>),
      Repl(<<BS, "n", NL>>, <<"t","i","t","l","e">>, AllFiles),
      Repl(<<"s","a","y"," ","\"","h","i","\"">>, <<"c","o","u","n","t">>, AllFiles) }

InstallPool == { <<>>, << <<"n","p","m"," ","i","n","s","t","a","l","l">>, <<"e","c","h","o"," ","o","k">> >> }

Templates ==
    { [EmptyTemplate EXCEPT !.name = <<"M","y"," ","S","h","o","p">>, !.variables = vs, !.groups = gs,
                            !.replacements = rs, !.onInstall = cs] :
        vs \in SeqsUpTo(VarPool, MaxVars), gs \in GroupPool,
        rs \in SeqsUpTo(ReplPool, MaxRepl), cs \in InstallPool }

InitRT ==
    /\ rt \in [pc : {"template"}, template : Templates, text : {<<>>}, parsed : {EmptyTemplate}]
    /\ esc = Off
    /\ ap = Off
    /\ ps = Off
    /\ tw = Off
    /\ cu = Off
    /\ InstallOff

Generate ==
    /\ rt.pc = "template"
    /\ rt' = [rt EXCEPT !.pc = "generated", !.text = generateKlore(rt.template)]
    /\ UNCHANGED <<esc, ap, ps, tw, cu, instVars>>

Parse ==
    /\ rt.pc = "generated"
    /\ rt' = [rt EXCEPT !.pc = "parsed", !.parsed = parseKlore(rt.text)]
    /\ UNCHANGED <<esc, ap, ps, tw, cu, instVars>>

NextRT == Generate \/ Parse

SpecRT == InitRT /\ [][NextRT]_vars

---------------------------------------------------------------------------
(* SpecApply: one call of applyReplacements                                *)

MaxContentLen == 3
MaxApRepl == 2

ApAlphabet == {"a", "b", "x", "."}

ApReplPool ==
    { Repl(<<"a",".","b">>, <<"v">>, AllFiles),
      Repl(<<".">>, <<"w">>, AllFiles),
      Repl(<<"a">>, <<"v">>, << <<"*",".","m","d">> >>),
      Repl(<<>>, <<"v">>, AllFiles),
      Repl(<<"x">>, <<"u">>, AllFiles) }

\* A value map as a function from the names that have a value
ApValues ==
    { <<>>,
      (<<"v">> :> <<"x">>) @@ (<<"w">> :> <<"a",".","b">>),
      (<<"v">> :> <<"$","&","$","&">>) @@ (<<"w">> :> <<>>) @@ (<<"u">> :> <<"b">>) }

InitApply ==
    /\ ap \in [pc : {"call"}, content : Strings(ApAlphabet, MaxContentLen),
               replacements : SeqsUpTo(ApReplPool, MaxApRepl), values : ApValues,
               result : {<<>>}]
    /\ esc = Off
    /\ rt = Off
    /\ ps = Off
    /\ tw = Off
    /\ cu = Off
    /\ InstallOff

Apply ==
    /\ ap.pc = "call"
    /\ ap' = [ap EXCEPT !.pc = "applied",
                        !.result = applyReplacements(ap.content, ap.replacements, ap.values)]
    /\ UNCHANGED <<esc, rt, ps, tw, cu, instVars>>

NextApply == Apply

SpecApply == InitApply /\ [][NextApply]_vars

---------------------------------------------------------------------------
(* SpecParse: parseKlore on well-formed and malformed definition texts     *)

MaxLines == 2

\* Lines of a definition text: blank, comment, keyword only, unterminated
\* quote or bracket, unknown keyword, block delimiters, and well-formed ones
LinePool ==
    { <<>>, <<"#","c">>, <<"F","O","O"," ","b","a","r">>,
      <<"V","A","R">>, <<"V","A","R"," ","x">>, <<"V","A","R"," ","a"," ","S","T","R","I","N","G"," ","\"","d","\""," ","R","E","Q","U","I","R","E","D">>,
      <<"A","S","K">>, <<"A","S","K"," ","q"," ","\"","u","n","t","e","r","m","i","n","a","t","e","d">>,
      <<"G","R","O","U","P">>, <<"G","R","O","U","P"," ","g"," ","[","a">>,
      <<"R","E","P","L","A","C","E"," ","\"","a","b","c">>, <<"R","E","P","L","A","C","E"," ","W","I","T","H">>,
      <<"N","A","M","E"," ","\"","x">>, <<"R","E","Q","U","I","R","E","S">>,
      <<"O","N"," ","I","N","S","T","A","L","L">>, <<"R","U","N"," ","\"","g","o","\"">>, <<"E","N","D">>,
      <<"V","A","R"," ","x"," ","\"","d","\"">>, <<"v","a","r"," ","a"," ","s","t","r","i","n","g"," ","\"","d","\""," ","r","e","q","u","i","r","e","d">>,
      <<"R","E","P","L","A","C","E"," ","\"","a","\""," ","W","I","T","H"," ","{","{"," ","g","h","o","s","t"," ","}","}"," ","I","N"," ","\"","*",".","m","d","\"">>, <<"r","e","p","l","a","c","e"," ","\"","a","\""," ","w","i","t","h"," ","{","{"," ","g","h","o","s","t"," ","}","}"," ","i","n"," ","\"","*",".","m","d","\"">>,
      <<"R","E","P","L","A","C","E"," ","\"","W","I","T","H","I","N","\"">>,
      <<"o","n"," ","i","n","s","t","a","l","l">>, <<"r","u","n"," ","\"","g","o","\"">>, <<"e","n","d">> }

\* What may stand before those lines: nothing, or an ON block with its END
BlockPool ==
    { <<>>,
      << <<"O","N"," ","I","N","S","T","A","L","L">>, <<"R","U","N"," ","\"","g","o","\"">>, <<"R","E","P","L","A","C","E"," ","\"","b","\""," ","W","I","T","H"," ","{","{"," ","a"," ","}","}"," ","I","N"," ","\"","*","*","/","*","\"">>,
         <<"R","U","N"," ","\"","b","u","i","l","d","\"">>, <<"E","N","D">> >>,
      << <<"R","E","P","L","A","C","E"," ","\"","c","\""," ","W","I","T","H"," ","{","{"," ","a"," ","}","}"," ","I","N"," ","\"","*","*","/","*","\"">>, <<"O","N","_","I","N","S","T","A","L","L">>,
         <<"R","E","P","L","A","C","E"," ","\"","b","\""," ","W","I","T","H"," ","{","{"," ","a"," ","}","}"," ","I","N"," ","\"","*","*","/","*","\"">>, <<"E","n","d">> >> }

InitParse ==
    /\ \E block \in BlockPool, lines \in SeqsUpTo(LinePool, MaxLines) :
          ps = [pc |-> "call", block |-> block, lines |-> lines,
                text |-> Join(block \o lines, <<NL>>), result |-> Off]
    /\ esc = Off
    /\ rt = Off
    /\ ap = Off
    /\ tw = Off
    /\ cu = Off
    /\ InstallOff

ParseText ==
    /\ ps.pc = "call"
    /\ ps' = [ps EXCEPT !.pc = "parsed", !.result = parseKlore(ps.text)]
    /\ UNCHANGED <<esc, rt, ap, tw, cu, instVars>>

NextParse == ParseText

SpecParse == InitParse /\ [][NextParse]_vars

---------------------------------------------------------------------------
(* Spec: one installTemplate call, await by await                          *)

File(name) == [name |-> name, isDir |-> FALSE]
Dir(name) == [name |-> name, isDir |-> TRUE]

\* The definition of the end-to-end scenario: one required variable, one replacement
KloreOne ==
    Join(<< <<"N","A","M","E"," ","\"","s","h","o","p","\"">>,
            <<"V","A","R"," ","c","o","m","p","a","n","y","N","a","m","e"," ","S","T","R","I","N","G"," ","\"","A","c","m","e","\""," ","R","E","Q","U","I","R","E","D">>,
            <<"R","E","P","L","A","C","E"," ","\"","A","c","m","e","\""," ","W","I","T","H"," ","{","{"," ","c","o","m","p","a","n","y","N","a","m","e"," ","}","}"," ","I","N"," ","\"","*","*","/","*","\"">> >>, <<NL>>)

\* A definition with groups, two replacements and two post-install commands
KloreShop ==
    Join(<< <<"V","A","R"," ","c","o","m","p","a","n","y","N","a","m","e"," ","S","T","R","I","N","G"," ","\"","A","c","m","e","\""," ","R","E","Q","U","I","R","E","D">>,
            <<"A","S","K"," ","e","m","a","i","l"," ","\"","C","o","n","t","a","c","t","?","\""," ","D","E","F","A","U","L","T"," ","\"","a","@","b",".","c","\"">>,
            <<"V","A","R"," ","m","a","p","K","e","y"," ","S","T","R","I","N","G"," ","\"","k","1","\"">>,
            <<"G","R","O","U","P"," ","c","o","n","t","a","c","t"," ","[","e","m","a","i","l","]">>,
            <<"G","R","O","U","P"," ","m","a","p","s"," ","[","m","a","p","K","e","y","]">>,
            <<"R","E","P","L","A","C","E"," ","\"","A","c","m","e","\""," ","W","I","T","H"," ","{","{"," ","c","o","m","p","a","n","y","N","a","m","e"," ","}","}"," ","I","N"," ","\"","*","*","/","*","\"">>,
            <<"R","E","P","L","A","C","E"," ","\"","a","@","b",".","c","\""," ","W","I","T","H"," ","{","{"," ","e","m","a","i","l"," ","}","}"," ","I","N"," ","\"","*",".","m","d","\"">>,
            <<"O","N"," ","I","N","S","T","A","L","L">>,
            <<"R","U","N"," ","\"","n","p","m"," ","i","n","s","t","a","l","l","\"">>,
            <<"R","U","N"," ","\"","n","p","m"," ","r","u","n"," ","b","u","i","l","d","\"">>,
            <<"E","N","D">> >>, <<NL>>)

\* A definition whose only variable is required and has an empty default
KloreRequired ==
    Join(<< <<"V","A","R"," ","t","a","g","l","i","n","e"," ","S","T","R","I","N","G"," ","\"","\""," ","R","E","Q","U","I","R","E","D">>,
            <<"R","E","P","L","A","C","E"," ","\"","S","l","o","g","a","n","\""," ","W","I","T","H"," ","{","{"," ","t","a","g","l","i","n","e"," ","}","}"," ","I","N"," ","\"","*","*","/","*","\"">> >>, <<NL>>)

\* A source tree: the entries readdir returns for each directory and the
\* content of each file, both by path from the template directory
TreeNoKlore ==
    [ entries |-> (<<>> :> << File(<<"i","n","d","e","x",".","h","t","m","l">>) >>),
      content |-> (<< <<"i","n","d","e","x",".","h","t","m","l">> >> :> <<"<","h","1",">","W","e","l","c","o","m","e"," ","t","o"," ","A","c","m","e","<","/","h","1",">">>) ]

TreeOne ==
    [ entries |-> (<<>> :> << File(<<".","k","l","o","r","e">>), File(<<"i","n","d","e","x",".","h","t","m","l">>) >>),
      content |-> (<< <<".","k","l","o","r","e">> >> :> KloreOne)
                  @@ (<< <<"i","n","d","e","x",".","h","t","m","l">> >> :> <<"<","h","1",">","W","e","l","c","o","m","e"," ","t","o"," ","A","c","m","e","<","/","h","1",">">>) ]

TreeAssets ==
    [ entries |-> (<<>> :> << Dir(<<"a","s","s","e","t","s">>), File(<<".","k","l","o","r","e">>), File(<<"l","o","g","o",".","p","n","g">>) >>)
                  @@ (<< <<"a","s","s","e","t","s">> >> :> <<>>),
      content |-> (<< <<".","k","l","o","r","e">> >> :> KloreOne)
                  @@ (<< <<"l","o","g","o",".","p","n","g">> >> :> <<"P","N","G"," ","A","c","m","e">>) ]

TreeShop ==
    [ entries |-> (<<>> :> << File(<<".","k","l","o","r","e">>), File(<<"i","n","d","e","x",".","h","t","m","l">>), File(<<"l","o","g","o",".","p","n","g">>),
                              Dir(<<"n","o","d","e","_","m","o","d","u","l","e","s">>), Dir(<<"s","r","c">>) >>)
                  @@ (<< <<"n","o","d","e","_","m","o","d","u","l","e","s">> >> :> << File(<<"l","i","b",".","j","s">>) >>)
                  @@ (<< <<"s","r","c">> >> :> << File(<<"a","p","p",".","j","s">>), File(<<".","g","i","t","i","g","n","o","r","e">>),
                                          File(<<"N","O","T","E","S",".","T","X","T">>) >>),
      content |-> (<< <<".","k","l","o","r","e">> >> :> KloreShop)
                  @@ (<< <<"i","n","d","e","x",".","h","t","m","l">> >> :> <<"<","h","1",">","W","e","l","c","o","m","e"," ","t","o"," ","A","c","m","e","<","/","h","1",">">>)
                  @@ (<< <<"l","o","g","o",".","p","n","g">> >> :> <<"P","N","G"," ","A","c","m","e">>)
                  @@ (<< <<"n","o","d","e","_","m","o","d","u","l","e","s">>, <<"l","i","b",".","j","s">> >> :> <<"A","c","m","e">>)
                  @@ (<< <<"s","r","c">>, <<"a","p","p",".","j","s">> >> :> <<"m","a","i","l"," ","a","@","b",".","c">>)
                  @@ (<< <<"s","r","c">>, <<".","g","i","t","i","g","n","o","r","e">> >> :> <<"A","c","m","e">>)
                  @@ (<< <<"s","r","c">>, <<"N","O","T","E","S",".","T","X","T">> >> :> <<"p","l","a","i","n">>) ]

TreeRequired ==
    [ entries |-> (<<>> :> << File(<<".","k","l","o","r","e">>), File(<<"i","n","d","e","x",".","h","t","m","l">>) >>),
      content |-> (<< <<".","k","l","o","r","e">> >> :> KloreRequired)
                  @@ (<< <<"i","n","d","e","x",".","h","t","m","l">> >> :> <<"<","p",">","S","l","o","g","a","n","<","/","p",">">>) ]

SourceTrees == {TreeNoKlore, TreeOne, TreeAssets, TreeShop, TreeRequired}

\* fs.existsSync(path.join(templatePath, '.klore'))
HasKlore(tree) == << <<".","k","l","o","r","e">> >> \in DOMAIN tree.content

\* The destination as installTemplate may find it
NoDest == [exists |-> FALSE, dirs |-> {}, files |-> <<>>]
OldDest == [exists |-> TRUE, dirs |-> {<<>>},
            files |-> (<< <<"i","n","d","e","x",".","h","t","m","l">> >> :> <<"o","l","d">>) @@ (<< <<"k","e","e","p",".","t","x","t">> >> :> <<"m","i","n","e">>)]

\* options.values as the callers build it: absent, the --defaults map of the
\* template's variables, or a map given by the caller
OptionValues(tree) ==
    {Null, <<"c","o","m","p","a","n","y","N","a","m","e">> :> <<"G","l","o","b","e","x">>}
    \cup (IF HasKlore(tree) THEN {DefaultValues(parseKlore(tree.content[<< <<".","k","l","o","r","e">> >>]))}
          ELSE {})

\* What the user may type at a prompt
UserInputs == { <<>>, <<SP>>, <<"G","l","o","b","e","x">>, <<"x","@","y",".","z">> }

\* The exit codes of a post-install command
ExitCodes == {0, 1}

NoPrompt == [queue |-> <<>>, vals |-> <<>>, prefilled |-> Null, error |-> Undef,
             retry |-> FALSE, cancelled |-> FALSE]
NoWalk == [stack |-> <<>>, filesCreated |-> 0, replacementsApplied |-> 0,
           written |-> {}, failed |-> FALSE]
\* runPostInstall before its first command; codes keeps how each command ended
NoPost == [next |-> 0, running |-> FALSE, started |-> <<>>, codes |-> <<>>, errors |-> <<>>]

Init ==
    /\ esc = Off
    /\ rt = Off
    /\ ap = Off
    /\ ps = Off
    /\ tw = Off
    /\ cu = Off
    /\ pc = "readKlore"
    /\ \E tree \in SourceTrees, d \in {NoDest, OldDest}, force \in BOOLEAN :
         \E vals \in OptionValues(tree) :
            /\ env = [source |-> tree, force |-> force, values |-> vals, dest0 |-> d]
            /\ dest = d
    /\ template = Null
    /\ prompt = NoPrompt
    /\ resolved = Null
    /\ walk = NoWalk
    /\ post = NoPost
    /\ installResult = Null

\* return { success: false, ..., filesCreated: 0, replacementsApplied: 0, errors: [message] }
Refuse(message) ==
    /\ installResult' = InstallResult(FALSE, 0, 0, <<message>>)
    /\ pc' = "done"

\* 1. Read .klore file
ReadKloreFile ==
    /\ pc = "readKlore"
    /\ IF HasKlore(env.source)
       THEN /\ template' = parseKlore(env.source.content[<< <<".","k","l","o","r","e">> >>])
            /\ pc' = "checkOutput"
            /\ UNCHANGED installResult
       ELSE /\ Refuse(<<"N","o"," ",".","k","l","o","r","e"," ","f","i","l","e"," ","f","o","u","n","d"," ","i","n"," ","t","e","m","p","l","a","t","e"," ","d","i","r","e","c","t","o","r","y">>)
            /\ UNCHANGED template
    /\ UNCHANGED <<pureVars, env, dest, prompt, resolved, walk, post>>

\* 2. Check if output exists
CheckOutput ==
    /\ pc = "checkOutput"
    /\ IF OutputBlocked(dest.exists, env.force)
       THEN Refuse(<<"O","u","t","p","u","t"," ","d","i","r","e","c","t","o","r","y"," ","a","l","r","e","a","d","y"," ","e","x","i","s","t","s","."," ","U","s","e"," ","-","-","f","o","r","c","e"," ","t","o"," ","o","v","e","r","w","r","i","t","e",".">>)
       ELSE pc' = "resolve" /\ UNCHANGED installResult
    /\ UNCHANGED <<pureVars, env, template, dest, prompt, resolved, walk, post>>

\* 3. options.values || await promptVariables(template)
ResolveValues ==
    /\ pc = "resolve"
    /\ IF env.values # Null
       THEN /\ resolved' = env.values
            /\ pc' = "resolved"
            /\ UNCHANGED prompt
       ELSE IF PromptOrder(template) = <<>>
       THEN /\ resolved' = <<>>
            /\ pc' = "resolved"
            /\ UNCHANGED prompt
       ELSE /\ prompt' = [NoPrompt EXCEPT !.queue = PromptOrder(template)]
            /\ pc' = "prompt"
            /\ UNCHANGED resolved
    /\ UNCHANGED <<pureVars, env, template, dest, walk, post, installResult>>

\* promptVariables has the value of the variable at the head of the queue
Answered(value) ==
    LET variable == Head(prompt.queue)
        vals == [n \in DOMAIN prompt.vals \cup {variable.name} |->
                    IF n = variable.name THEN value ELSE prompt.vals[n]]
    IN  /\ prompt' = [prompt EXCEPT !.queue = Tail(@), !.vals = vals, !.error = Undef]
        /\ IF Len(prompt.queue) = 1
           THEN resolved' = vals /\ pc' = "resolved"
           ELSE UNCHANGED <<resolved, pc>>

\* A variable with a pre-filled value is not asked (installTemplate hands
\* promptVariables no pre-filled values)
PromptUsePrefilled ==
    /\ pc = "prompt"
    /\ prompt.prefilled # Null
    /\ Head(prompt.queue).name \in DOMAIN prompt.prefilled
    /\ Truthy(prompt.prefilled[Head(prompt.queue).name])
    /\ Answered(prompt.prefilled[Head(prompt.queue).name])
    /\ UNCHANGED <<pureVars, env, template, dest, walk, post, installResult>>

\* The user submits an input that validateInput accepts
PromptSubmit ==
    /\ pc = "prompt"
    /\ \E input \in UserInputs :
          /\ validateInput(input, Head(prompt.queue)) = Undef
          /\ Answered(PromptedValue(input, Head(prompt.queue)))
    /\ UNCHANGED <<pureVars, env, template, dest, walk, post, installResult>>

\* The user submits an input that validateInput rejects: the prompt shows the
\* message and asks again
PromptReject ==
    /\ pc = "prompt"
    /\ \E input \in UserInputs :
          /\ validateInput(input, Head(prompt.queue)) # Undef
          /\ prompt' = [prompt EXCEPT !.error = validateInput(input, Head(prompt.queue)),
                                      !.retry = TRUE]
    /\ UNCHANGED <<pureVars, pc, env, template, dest, resolved, walk, post, installResult>>

\* The user cancels the prompt
PromptCancel ==
    /\ pc = "prompt"
    /\ prompt' = [prompt EXCEPT !.cancelled = TRUE]
    /\ resolved' = OnCancel(prompt.vals)
    /\ pc' = "resolved"
    /\ UNCHANGED <<pureVars, env, template, dest, walk, post, installResult>>

\* if (!values) return { success: false, ... 'Installation cancelled by user' }
AfterResolve ==
    /\ pc = "resolved"
    /\ IF resolved = Null
       THEN /\ Refuse(<<"I","n","s","t","a","l","l","a","t","i","o","n"," ","c","a","n","c","e","l","l","e","d"," ","b","y"," ","u","s","e","r">>)
            /\ UNCHANGED walk
       ELSE /\ pc' = "copy"
            /\ walk' = [NoWalk EXCEPT !.stack = << [dir |-> <<>>, stage |-> "readdir",
                                                   idx |-> 1, content |-> <<>>] >>]
            /\ UNCHANGED installResult
    /\ UNCHANGED <<pureVars, env, template, dest, prompt, resolved, post>>

\* processDir: the frame of the innermost call and the entry it is at
Top == walk.stack[Len(walk.stack)]
Entries == env.source.entries[Top.dir]
AtEntry == Top.stage = "loop" /\ Top.idx <= Len(Entries)
Entry == Entries[Top.idx]
EntryPath == Append(Top.dir, Entry.name)
SetTop(frame) == [walk EXCEPT !.stack[Len(walk.stack)] = frame]
Copying == pc = "copy" /\ walk.stack # <<>>

\* const entries = await fs.promises.readdir(src, { withFileTypes: true })
ReadDir ==
    /\ Copying
    /\ Top.stage = "readdir"
    /\ walk' = SetTop([Top EXCEPT !.stage = "mkdir"])
    /\ UNCHANGED <<pureVars, pc, env, template, dest, prompt, resolved, post, installResult>>

\* await fs.promises.mkdir(dest, { recursive: true })
MkDir ==
    /\ Copying
    /\ Top.stage = "mkdir"
    /\ dest' = [dest EXCEPT !.exists = TRUE, !.dirs = @ \cup {Top.dir}]
    /\ walk' = SetTop([Top EXCEPT !.stage = "loop"])
    /\ UNCHANGED <<pureVars, pc, env, template, prompt, resolved, post, installResult>>

\* if (excludeNames.includes(entry.name)) continue
SkipExcluded ==
    /\ Copying
    /\ AtEntry
    /\ Entry.name \in excludeNames
    /\ walk' = SetTop([Top EXCEPT !.idx = @ + 1])
    /\ UNCHANGED <<pureVars, pc, env, template, dest, prompt, resolved, post, installResult>>

\* if (entry.isDirectory()) await processDir(srcPath, destPath)
EnterDir ==
    /\ Copying
    /\ AtEntry
    /\ Entry.name \notin excludeNames
    /\ Entry.isDir
    /\ walk' = [walk EXCEPT !.stack = Append(@, [dir |-> EntryPath, stage |-> "readdir",
                                                 idx |-> 1, content |-> <<>>])]
    /\ UNCHANGED <<pureVars, pc, env, template, dest, prompt, resolved, post, installResult>>

\* The loop of a processDir call ends: the call returns to the loop of its
\* caller, or copyWithReplacements returns its counts
LeaveDir ==
    /\ Copying
    /\ Top.stage = "loop"
    /\ Top.idx > Len(Entries)
    /\ LET rest == SubSeq(walk.stack, 1, Len(walk.stack) - 1)
       IN  IF rest = <<>>
           THEN /\ walk' = [walk EXCEPT !.stack = <<>>]
                /\ pc' = "copied"
           ELSE /\ walk' = [walk EXCEPT !.stack =
                               [rest EXCEPT ![Len(rest)].idx = @ + 1]]
                /\ UNCHANGED pc
    /\ UNCHANGED <<pureVars, env, template, dest, prompt, resolved, post, installResult>>

IsFileEntry == AtEntry /\ Entry.name \notin excludeNames /\ ~Entry.isDir

\* const content = await fs.promises.readFile(srcPath, 'utf-8')
ReadTextFile ==
    /\ Copying
    /\ IsFileEntry
    /\ isTextFile(Entry.name)
    /\ walk' = SetTop([Top EXCEPT !.stage = "write",
                                  !.content = env.source.content[EntryPath]])
    /\ UNCHANGED <<pureVars, pc, env, template, dest, prompt, resolved, post, installResult>>

\* One more file is at the destination
Wrote(file, content) ==
    [dest EXCEPT !.files = [f \in DOMAIN @ \cup {file} |->
                               IF f = file THEN content ELSE @[f]]]

\* const replaced = applyReplacements(...); await fs.promises.writeFile(destPath, replaced);
\* if (content !== replaced) replacementsApplied++; filesCreated++
WriteTextFile ==
    /\ Copying
    /\ Top.stage = "write"
    /\ LET replaced == applyReplacements(Top.content, template.replacements, resolved)
       IN  /\ dest' = Wrote(EntryPath, replaced)
           /\ walk' = [SetTop([Top EXCEPT !.stage = "loop", !.idx = @ + 1,
                                          !.content = <<>>])
                         EXCEPT !.replacementsApplied =
                                    CountReplaced(Top.content, replaced, @),
                                !.filesCreated = @ + 1,
                                !.written = @ \cup {EntryPath}]
    /\ UNCHANGED <<pureVars, pc, env, template, prompt, resolved, post, installResult>>

\* await fs.promises.copyFile(srcPath, destPath); filesCreated++
CopyBinaryFile ==
    /\ Copying
    /\ IsFileEntry
    /\ ~isTextFile(Entry.name)
    /\ dest' = Wrote(EntryPath, CopiedContent(env.source.content[EntryPath],
                                              template.replacements, resolved))
    /\ walk' = [SetTop([Top EXCEPT !.idx = @ + 1])
                  EXCEPT !.filesCreated = @ + 1,
                         !.written = @ \cup {EntryPath}]
    /\ UNCHANGED <<pureVars, pc, env, template, prompt, resolved, post, installResult>>

\* The awaited filesystem call the walk is at
PendingCall ==
    IF Top.stage \in {"readdir", "mkdir"} THEN Top.stage
    ELSE IF Top.stage = "write" THEN "writeFile"
    ELSE IF ~IsFileEntry THEN "none"
    ELSE IF isTextFile(Entry.name) THEN "readFile"
    ELSE "copyFile"

\* The awaited filesystem call rejects: the error leaves every processDir call
\* and copyWithReplacements, and the catch of installTemplate returns.  A
\* rejected writeFile or copyFile may already have created its file.
FsFailure ==
    /\ Copying
    /\ PendingCall # "none"
    /\ walk' = [walk EXCEPT !.failed = TRUE]
    /\ installResult' = CopyErrorResult(<<"E","I","O">>)
    /\ pc' = "done"
    /\ \/ UNCHANGED dest
       \/ /\ PendingCall \in {"writeFile", "copyFile"}
          /\ dest' = Wrote(EntryPath, <<>>)
    /\ UNCHANGED <<pureVars, env, template, prompt, resolved, post>>

\* return { success: true, filesCreated: files, replacementsApplied: replaced, errors }
Succeed(errors) ==
    /\ installResult' = InstallResult(TRUE, walk.filesCreated,
                                      walk.replacementsApplied, errors)
    /\ pc' = "done"

\* 5. Run post-install commands if any
FinishCopy ==
    /\ pc = "copied"
    /\ IF Len(template.onInstall) > 0
       THEN pc' = "confirm" /\ UNCHANGED installResult
       ELSE Succeed(post.errors)
    /\ UNCHANGED <<pureVars, env, template, dest, prompt, resolved, walk, post>>

\* const shouldRun = await p.confirm(...): yes, no, or cancelled
Confirm ==
    /\ pc = "confirm"
    /\ \E answer \in {"yes", "no", "cancel"} :
          IF answer = "yes"
          THEN pc' = "post" /\ UNCHANGED installResult
          ELSE Succeed(post.errors)
    /\ UNCHANGED <<pureVars, env, template, dest, prompt, resolved, walk, post>>

\* A runPostInstall that does not wait for copyWithReplacements
PostInstallReadyEarly == pc \in {"post", "copy"}

\* installTemplate has awaited copyWithReplacements and the confirm prompt
PostInstallReady == pc = "post"

\* runPostInstall: spawn(cmd, [], { cwd, shell: true })
SpawnCommand ==
    /\ PostInstallReady
    /\ ~post.running
    /\ post.next < Len(template.onInstall)
    /\ post' = [post EXCEPT !.running = TRUE,
                            !.started = Append(@, template.onInstall[post.next + 1])]
    /\ UNCHANGED <<pureVars, pc, env, template, dest, prompt, resolved, walk, installResult>>

CodeDigit(code) == IF code = 0 THEN "0" ELSE "1"

\* A runPostInstall that resolves whatever the exit code is
RejectsNever(code) == FALSE

\* child.on('close'): if (code === 0) resolve() else reject(...)
Rejects(code) == code # 0

\* A catch that swallows the error of runPostInstall
PostInstallErrorDropped(errors, message) == errors

\* errors.push(`Post-install error: ${(err as Error).message}`)
PostInstallError(errors, message) ==
    Append(errors, <<"P","o","s","t","-","i","n","s","t","a","l","l"," ","e","r","r","o","r",":"," ">> \o message)

\* child.on('close'): code 0 resolves and the loop goes on, any other code
\* rejects and installTemplate records the error
CommandClose ==
    /\ pc = "post"
    /\ post.running
    /\ \E code \in ExitCodes :
          IF ~Rejects(code)
          THEN /\ post' = [post EXCEPT !.running = FALSE, !.next = @ + 1,
                                       !.codes = Append(@, CodeDigit(code))]
               /\ IF post.next + 1 = Len(template.onInstall)
                  THEN Succeed(post.errors)
                  ELSE UNCHANGED <<pc, installResult>>
          ELSE LET errors == PostInstallError(post.errors,
                                 <<"C","o","m","m","a","n","d"," ","f","a","i","l","e","d"," ","w","i","t","h"," ","c","o","d","e"," ">> \o <<CodeDigit(code)>>)
               IN  /\ post' = [post EXCEPT !.running = FALSE, !.errors = errors,
                                           !.codes = Append(@, CodeDigit(code))]
                   /\ Succeed(errors)
    /\ UNCHANGED <<pureVars, env, template, dest, prompt, resolved, walk>>

\* child.on('error'): the command could not be spawned
CommandError ==
    /\ pc = "post"
    /\ post.running
    /\ LET errors == PostInstallError(post.errors, <<"s","p","a","w","n"," ","f","a","i","l","e","d">>)
       IN  /\ post' = [post EXCEPT !.running = FALSE, !.errors = errors,
                                   !.codes = Append(@, "error")]
           /\ Succeed(errors)
    /\ UNCHANGED <<pureVars, env, template, dest, prompt, resolved, walk>>

Next ==
    \/ ReadKloreFile
    \/ CheckOutput
    \/ ResolveValues
    \/ PromptSubmit
    \/ PromptReject
    \/ PromptCancel
    \/ AfterResolve
    \/ ReadDir
    \/ MkDir
    \/ SkipExcluded
    \/ EnterDir
    \/ LeaveDir
    \/ ReadTextFile
    \/ WriteTextFile
    \/ CopyBinaryFile
    \/ FsFailure
    \/ FinishCopy
    \/ Confirm
    \/ SpawnCommand
    \/ CommandClose
    \/ CommandError

Spec == Init /\ [][Next]_vars

---------------------------------------------------------------------------
(* Round-trip claims                                                       *)

Range(q) == {q[i] : i \in 1..Len(q)}
Count(q, x) == Cardinality({i \in 1..Len(q) : q[i] = x})
SameBag(p, q) == Len(p) = Len(q) /\ \A x \in Range(p) : Count(p, x) = Count(q, x)

\* C1: parseKlore(generateKlore(t)) holds the same variables as t: the same
\* names, each with the same type, default value and required flag.
C1_VariablesRoundTrip ==
    rt.pc = "parsed" => Range(rt.parsed.variables) = Range(rt.template.variables)

\* C2: parseKlore(generateKlore(t)) holds the same replacements as t: none is
\* lost or added, each has the same original, variable and filePatterns,
\* whatever group its variable belongs to.
C2_ReplacementsRoundTrip ==
    rt.pc = "parsed" => SameBag(rt.parsed.replacements, rt.template.replacements)

\* C3: the parser's unescaping inverts the generator's escaping of a REPLACE
\* original: unescape(escape(s)) = s for every string s.
C3_UnescapeInvertsEscape ==
    esc.pc = "unescaped" => esc.unescaped = esc.original

\* C4: a REPLACE original with embedded newlines is emitted on one definition
\* line and parsed back to an original equal to the input.  Stated for the
\* templates without groups, whose replacements are all emitted.
C4_MultiLineOriginalRestored ==
    (rt.pc = "parsed" /\ rt.template.groups = <<>>) =>
        \A i \in 1..Len(rt.template.replacements) :
            LET r == rt.template.replacements[i]
            IN  Includes(r.original, <<NL>>) =>
                  /\ i <= Len(rt.parsed.replacements)
                  /\ rt.parsed.replacements[i].original = r.original

---------------------------------------------------------------------------
(* Replacement claims                                                      *)

\* The replacement takes part in applyReplacements
Applicable(r, values) == r.variable \in DOMAIN values /\ Len(r.original) > 0

\* The original occurs in s as an exact substring
OccursIn(original, s) == \E i \in 1..Len(s) : IsPrefixAt(original, s, i)

\* s with every exact occurrence of original, left to right, replaced by what
\* String.prototype.replace inserts for value
RECURSIVE LiteralReplaceFrom(_, _, _, _)
LiteralReplaceFrom(s, original, value, i) ==
    IF i > Len(s) THEN <<>>
    ELSE IF IsPrefixAt(original, s, i)
         THEN SubstituteFrom(value, 1, original, Sub(s, 1, i - 1),
                             Sub(s, i + Len(original), Len(s)))
              \o LiteralReplaceFrom(s, original, value, i + Len(original))
    ELSE <<s[i]>> \o LiteralReplaceFrom(s, original, value, i + 1)

RECURSIVE LiteralApplyFrom(_, _, _, _)
LiteralApplyFrom(s, replacements, values, k) ==
    IF k > Len(replacements) THEN s
    ELSE LET r == replacements[k]
         IN  LiteralApplyFrom(
                 IF Applicable(r, values)
                 THEN LiteralReplaceFrom(s, r.original, values[r.variable], 1) ELSE s,
                 replacements, values, k + 1)

\* C5: applyReplacements matches an original only as an exact literal substring:
\* a content in which no original occurs is returned unchanged (original "a.b"
\* never changes "axb"), and what is replaced is exactly the literal occurrences.
C5_LiteralMatchOnly ==
    ap.pc = "applied" =>
        /\ (\A k \in 1..Len(ap.replacements) :
                Applicable(ap.replacements[k], ap.values)
                    => ~OccursIn(ap.replacements[k].original, ap.content))
             => ap.result = ap.content
        /\ ap.result = LiteralApplyFrom(ap.content, ap.replacements, ap.values, 1)

\* The original "a.b" was applied with a value to the content "axb"
C5_Witness ==
    /\ ap.pc = "applied"
    /\ ap.content = <<"a","x","b">>
    /\ \E k \in 1..Len(ap.replacements) :
          /\ ap.replacements[k].original = <<"a",".","b">>
          /\ Applicable(ap.replacements[k], ap.values)
    /\ ap.result = <<"a","x","b">>

---------------------------------------------------------------------------
(* Install claims                                                          *)

\* The files of a source tree outside every directory or file of an excluded name
CopiedFiles(tree) ==
    {f \in DOMAIN tree.content : \A i \in 1..Len(f) : f[i] \notin excludeNames}

FileName(f) == f[Len(f)]
TextFiles(tree) == {f \in CopiedFiles(tree) : isTextFile(FileName(f))}

Succeeded == pc = "done" /\ installResult.success
Failed == pc = "done" /\ ~installResult.success

\* C6: every file the walk has copied that the extension allow-list does not
\* class as text has, at the destination, exactly the content of its source,
\* whatever the replacements and the values are, even when an original of an
\* applicable replacement occurs in it.
C6_BinaryCopiedByteForByte ==
    \A f \in walk.written :
        ~isTextFile(FileName(f))
            => /\ f \in DOMAIN dest.files
               /\ dest.files[f] = env.source.content[f]

\* A file that is not text, holding the original of a replacement whose
\* variable has another value, has been copied
C6_Witness ==
    /\ pc = "done"
    /\ \E f \in walk.written :
          /\ ~isTextFile(FileName(f))
          /\ \E k \in 1..Len(template.replacements) :
                LET r == template.replacements[k]
                IN  /\ Applicable(r, resolved)
                    /\ resolved[r.variable] # r.original
                    /\ OccursIn(r.original, env.source.content[f])

\* C7: on a successful install filesCreated is the number of files written to
\* the destination (text and binary, none of an excluded name), and
\* replacementsApplied is the number of text files whose written content is not
\* their source content; replacementsApplied never exceeds filesCreated; the
\* tree of one text file with one matching original gives 1 and 1.
C7_CountsOnSuccess ==
    /\ pc \in {"copy", "copied", "confirm", "post", "done"}
          => walk.replacementsApplied <= walk.filesCreated
    /\ Succeeded =>
          /\ CopiedFiles(env.source) \subseteq DOMAIN dest.files
          /\ walk.written = CopiedFiles(env.source)
          /\ installResult.filesCreated = Cardinality(CopiedFiles(env.source))
          /\ installResult.replacementsApplied =
                Cardinality({f \in TextFiles(env.source) :
                                dest.files[f] # env.source.content[f]})
          /\ installResult.replacementsApplied <= installResult.filesCreated
          /\ (env.source = TreeOne /\ resolved[<<"c","o","m","p","a","n","y","N","a","m","e">>] = <<"G","l","o","b","e","x">>)
                => /\ dest.files[<< <<"i","n","d","e","x",".","h","t","m","l">> >>] = <<"<","h","1",">","W","e","l","c","o","m","e"," ","t","o"," ","G","l","o","b","e","x","<","/","h","1",">">>
                   /\ installResult.filesCreated = 1
                   /\ installResult.replacementsApplied = 1

\* The end-to-end scenario has succeeded
C7_Witness ==
    /\ Succeeded
    /\ env.source = TreeOne
    /\ resolved[<<"c","o","m","p","a","n","y","N","a","m","e">>] = <<"G","l","o","b","e","x">>
    /\ installResult.replacementsApplied = 1

\* C8: when the destination exists and force is not set, installTemplate
\* returns success=false with filesCreated=0 without having prompted for a
\* variable and without any change to the destination.
C8_ExistingOutputRefused ==
    (env.dest0.exists /\ ~env.force) =>
        /\ pc \in {"readKlore", "checkOutput", "done"}
        /\ prompt = NoPrompt
        /\ dest = env.dest0
        /\ pc = "done" => /\ ~installResult.success
                          /\ installResult.filesCreated = 0

\* installTemplate has refused an existing destination of a template that
\* has a definition
C8_Witness ==
    /\ pc = "done"
    /\ HasKlore(env.source)
    /\ env.dest0.exists /\ ~env.force
    /\ installResult.errors =
          << <<"O","u","t","p","u","t"," ","d","i","r","e","c","t","o","r","y"," ","a","l","r","e","a","d","y"," ","e","x","i","s","t","s","."," ","U","s","e"," ","-","-","f","o","r","c","e"," ","t","o"," ","o","v","e","r","w","r","i","t","e",".">> >>

\* C9: once the user has cancelled a prompt, promptVariables has returned no
\* value map (the values entered before are gone), installTemplate returns
\* success=false, and the destination is as it was found, then and afterwards.
C9_CancelDiscardsValues ==
    prompt.cancelled =>
        /\ resolved = Null
        /\ pc \in {"resolved", "done"}
        /\ dest = env.dest0
        /\ walk = NoWalk
        /\ pc = "done" => ~installResult.success

\* The user cancelled after a value had been entered and installTemplate returned
C9_Witness ==
    /\ prompt.cancelled
    /\ DOMAIN prompt.vals # {}
    /\ pc = "done"

\* C10: a filesystem call of the walk that fails ends the walk: nothing more is
\* read or written and installTemplate returns success=false.  success=true is
\* returned only when every file of the walk is written with its content, and
\* its filesCreated is the number of files written.
C10_FailedWalkNotSuccess ==
    /\ [](walk.failed => Failed /\ installResult.filesCreated = 0)
    /\ [](Succeeded =>
            /\ ~walk.failed
            /\ \A f \in CopiedFiles(env.source) :
                  /\ f \in DOMAIN dest.files
                  /\ dest.files[f] =
                        IF isTextFile(FileName(f))
                        THEN applyReplacements(env.source.content[f],
                                               template.replacements, resolved)
                        ELSE env.source.content[f]
            /\ installResult.filesCreated =
                  Cardinality({f \in DOMAIN dest.files : f \in walk.written}))
    /\ [][walk.failed => UNCHANGED <<dest, walk, installResult>>]_vars

\* A call failed after a file had been written: a partial tree is on disk
C10_Witness ==
    /\ walk.failed
    /\ walk.filesCreated > 0
    /\ pc = "done"

\* C11: runPostInstall runs the commands one at a time in list order: the
\* commands started are a prefix of the list, at most one has not ended, and
\* every command before the last one started has exited with code zero, so
\* that nothing is started after a command that failed or did not start.
C11_CommandsSequential ==
    /\ post.started # <<>> =>
          /\ Len(post.started) <= Len(template.onInstall)
          /\ post.started = SubSeq(template.onInstall, 1, Len(post.started))
    /\ Len(post.codes) = Len(post.started) - (IF post.running THEN 1 ELSE 0)
    /\ \A i \in 1..(Len(post.started) - 1) : post.codes[i] = "0"
    /\ (\E i \in 1..Len(post.codes) : post.codes[i] # "0") => pc = "done"

\* The first command exited non-zero and the second one was never started
C11_Witness ==
    /\ pc = "done"
    /\ post.codes = <<"1">>
    /\ Len(template.onInstall) = 2
    /\ post.started = << template.onInstall[1] >>

\* C12: a post-install command that fails after the copy leaves the result a
\* success with the counts of the copy, and the failure is an entry of the
\* result's errors; it never makes the result a failure or resets the counts.
C12_PostInstallFailureKept ==
    (pc = "done" /\ \E i \in 1..Len(post.codes) : post.codes[i] # "0") =>
        /\ installResult.success
        /\ installResult.filesCreated = walk.filesCreated
        /\ installResult.filesCreated = Cardinality(CopiedFiles(env.source))
        /\ installResult.replacementsApplied = walk.replacementsApplied
        /\ Len(installResult.errors) = 1
        /\ StartsWith(installResult.errors[1], <<"P","o","s","t","-","i","n","s","t","a","l","l"," ","e","r","r","o","r",":"," ">>)

\* The second command failed after files were copied and one was changed
C12_Witness ==
    /\ pc = "done"
    /\ post.codes = <<"0", "1">>
    /\ installResult.filesCreated > 0
    /\ installResult.replacementsApplied > 0

---------------------------------------------------------------------------
(* SpecTwin: copyWithReplacements twice on the same inputs, each run into  *)
(* a fresh destination, each visiting the entries in an order of its own   *)

\* The directories below the root that the walk enters
WalkDirs(tree) ==
    {d \in DOMAIN tree.entries : d # <<>> /\ \A i \in 1..Len(d) : d[i] \notin excludeNames}

\* The files the walk copies
WalkFiles(tree) ==
    {f \in DOMAIN tree.content : \A i \in 1..Len(f) : f[i] \notin excludeNames}

\* A copy whose replacements only reach the first file it writes
CopyFileFirstOnly(run, f, tree, replacements, vals) ==
    LET content == tree.content[f]
        written == IF isTextFile(f[Len(f)]) /\ run.filesCreated = 0
                   THEN applyReplacements(content, replacements, vals)
                   ELSE content
    IN  [run EXCEPT !.todo = @ \ {f},
                    !.files = [g \in DOMAIN @ \cup {f} |-> IF g = f THEN written ELSE @[g]],
                    !.filesCreated = @ + 1,
                    !.replacementsApplied = IF content # written THEN @ + 1 ELSE @]

\* The body of processDir's loop for one file: the run after it
CopyFile(run, f, tree, replacements, vals) ==
    LET content == tree.content[f]
        text == isTextFile(f[Len(f)])
        written == IF text THEN applyReplacements(content, replacements, vals)
                   ELSE CopiedContent(content, replacements, vals)
    IN  [run EXCEPT !.todo = @ \ {f},
                    !.files = [g \in DOMAIN @ \cup {f} |-> IF g = f THEN written ELSE @[g]],
                    !.filesCreated = @ + 1,
                    !.replacementsApplied =
                        IF text THEN CountReplaced(content, written, @) ELSE @]

\* processDir's mkdir for one directory: the run after it
MakeDir(run, d) == [run EXCEPT !.todo = @ \ {d}, !.dirs = @ \cup {d}]

FreshRun(tree) ==
    [todo |-> WalkDirs(tree) \cup WalkFiles(tree), dirs |-> {<<>>}, files |-> <<>>,
     filesCreated |-> 0, replacementsApplied |-> 0]

TwinValues(tree) ==
    { <<>>, <<"c","o","m","p","a","n","y","N","a","m","e">> :> <<"G","l","o","b","e","x">>,
      DefaultValues(parseKlore(tree.content[<< <<".","k","l","o","r","e">> >>])),
      (<<"c","o","m","p","a","n","y","N","a","m","e">> :> <<"G","l","o","b","e","x">>) @@ (<<"e","m","a","i","l">> :> <<"x","@","y",".","z">>) }

InitTwin ==
    /\ \E tree \in {TreeOne, TreeAssets, TreeShop} : \E vals \in TwinValues(tree) :
          tw = [source |-> tree,
                replacements |-> parseKlore(tree.content[<< <<".","k","l","o","r","e">> >>]).replacements,
                values |-> vals,
                runs |-> <<FreshRun(tree), FreshRun(tree)>>]
    /\ esc = Off
    /\ rt = Off
    /\ ap = Off
    /\ ps = Off
    /\ cu = Off
    /\ InstallOff

\* One of the two runs copies the file its readdir order brings next
TwinCopyFile ==
    /\ \E k \in 1..2 : \E f \in tw.runs[k].todo \cap WalkFiles(tw.source) :
          tw' = [tw EXCEPT !.runs[k] = CopyFile(@, f, tw.source, tw.replacements, tw.values)]
    /\ UNCHANGED <<esc, rt, ap, ps, cu, instVars>>

\* One of the two runs creates the directory its readdir order brings next
TwinMakeDir ==
    /\ \E k \in 1..2 : \E d \in tw.runs[k].todo \cap WalkDirs(tw.source) :
          tw' = [tw EXCEPT !.runs[k] = MakeDir(@, d)]
    /\ UNCHANGED <<esc, rt, ap, ps, cu, instVars>>

NextTwin == TwinCopyFile \/ TwinMakeDir

SpecTwin == InitTwin /\ [][NextTwin]_vars

---------------------------------------------------------------------------
(* The line cursor of KloreParser, one step per line                       *)

MaxCursorLines == 3

\* The lines the first definition text is made of
CursorLinePool ==
    { <<>>, <<"#"," ","c">>, <<"V","A","R"," ","a"," ","S","T","R","I","N","G"," ","\"","d","\"">>, <<"O","N"," ","I","N","S","T","A","L","L">>, <<"R","U","N"," ","\"","g","o","\"">>, <<"E","N","D">> }

\* The definition texts of the second call
SecondTexts ==
    { <<>>,
      Join(<< <<"O","N"," ","I","N","S","T","A","L","L">>, <<"R","U","N"," ","\"","g","o","\"">> >>, <<NL>>),
      Join(<< <<"V","A","R"," ","a"," ","S","T","R","I","N","G"," ","\"","d","\"">>, <<"E","N","D">>, <<"R","E","P","L","A","C","E"," ","\"","b","\""," ","W","I","T","H"," ","{","{"," ","a"," ","}","}"," ","I","N"," ","\"","*","*","/","*","\"">> >>, <<NL>>) }

\* A cursor that a new call takes over from the call before it
StartCursorKept(prev) == prev

\* this.currentLine = 0 at the start of parse (the first line is line 1 here)
StartCursor(prev) == 1

\* parseKlore: a new parser, and parse up to its loop.  log is the list of the
\* lines passed to a handler so far, with the handler each was passed to; the
\* template under construction is the one these handlers build (LogTemplate)
StartParse(content, call, prev) ==
    [ pc |-> "top", call |-> call, prev |-> prev, lines |-> Preprocess(content),
      cur |-> StartCursor(prev), log |-> <<>> ]

\* parseLine's switch takes the ON_INSTALL / ON case
IsOnCommand(line) ==
    LET tokens == tokenize(line)
    IN  Len(tokens) > 0 /\ ToUpperCase(tokens[1]) \in {<<"O","N","_","I","N","S","T","A","L","L">>, <<"O","N">>}

\* parseOnInstall's test for the line that ends the block
IsEndLine(line) == ToUpperCase(line) = <<"E","N","D">>

\* The body of parseOnInstall's loop for a line that is not END
OnInstallLine(line, t) ==
    LET trimmed == Trim(line)
        upperLine == ToUpperCase(trimmed)
        command == extractString(line)
    IN  IF StartsWith(upperLine, <<"R","U","N">>)
        THEN IF Truthy(command) THEN [t EXCEPT !.onInstall = Append(@, command)] ELSE t
        ELSE IF StartsWith(upperLine, <<"R","E","P","L","A","C","E">>)
        THEN [t EXCEPT !.replacements = Append(@, parseReplacement(trimmed))]
        ELSE t

Handled(as) == [line |-> cu.cur, as |-> as]

\* The template after the handlers of log[k..] have run on t: parseLine's case
\* for a top-level line (an ON line only opens the block), the body of
\* parseOnInstall's loop for a line of a block, nothing for the END of a block
RECURSIVE LogTemplate(_, _, _, _)
LogTemplate(lines, log, k, t) ==
    IF k > Len(log) THEN t
    ELSE LET line == lines[log[k].line]
         IN  LogTemplate(lines, log, k + 1,
                CASE log[k].as = "top" /\ ~IsOnCommand(line)
                        -> parseLine(lines, log[k].line, t).t
                  [] log[k].as = "block" -> OnInstallLine(line, t)
                  [] OTHER -> t)

InitCursor ==
    /\ \E raw \in SeqsUpTo(CursorLinePool, MaxCursorLines) :
          cu = StartParse(Join(raw, <<NL>>), 1, 1)
    /\ esc = Off
    /\ rt = Off
    /\ ap = Off
    /\ ps = Off
    /\ tw = Off
    /\ InstallOff

\* parse's loop: parseLine on a line that opens no block, then currentLine++
CursorTopLine ==
    /\ cu.pc = "top" /\ cu.cur <= Len(cu.lines)
    /\ ~IsOnCommand(cu.lines[cu.cur])
    /\ cu' = [cu EXCEPT !.cur = @ + 1,
                        !.log = Append(@, Handled("top"))]
    /\ UNCHANGED <<esc, rt, ap, ps, tw, instVars>>

\* parseLine on an ON line: parseOnInstall starts with currentLine++
CursorEnterBlock ==
    /\ cu.pc = "top" /\ cu.cur <= Len(cu.lines)
    /\ IsOnCommand(cu.lines[cu.cur])
    /\ cu' = [cu EXCEPT !.pc = "block",
                        !.cur = @ + 1,
                        !.log = Append(@, Handled("top"))]
    /\ UNCHANGED <<esc, rt, ap, ps, tw, instVars>>

\* parseOnInstall's loop on a line that is not END
CursorBlockLine ==
    /\ cu.pc = "block" /\ cu.cur <= Len(cu.lines)
    /\ ~IsEndLine(cu.lines[cu.cur])
    /\ cu' = [cu EXCEPT !.cur = @ + 1,
                        !.log = Append(@, Handled("block"))]
    /\ UNCHANGED <<esc, rt, ap, ps, tw, instVars>>

\* parseOnInstall breaks on END; back in parse, currentLine++ leaves the END line
CursorEndBlock ==
    /\ cu.pc = "block" /\ cu.cur <= Len(cu.lines)
    /\ IsEndLine(cu.lines[cu.cur])
    /\ cu' = [cu EXCEPT !.pc = "top",
                        !.cur = @ + 1,
                        !.log = Append(@, Handled("end"))]
    /\ UNCHANGED <<esc, rt, ap, ps, tw, instVars>>

\* parseOnInstall's loop ends with the lines; back in parse, currentLine++
CursorBlockRunsOut ==
    /\ cu.pc = "block" /\ cu.cur > Len(cu.lines)
    /\ cu' = [cu EXCEPT !.pc = "top", !.cur = @ + 1]
    /\ UNCHANGED <<esc, rt, ap, ps, tw, instVars>>

\* parse's loop ends and the template is returned
CursorFinish ==
    /\ cu.pc = "top" /\ cu.cur > Len(cu.lines)
    /\ cu' = [cu EXCEPT !.pc = "done"]
    /\ UNCHANGED <<esc, rt, ap, ps, tw, instVars>>

\* parseKlore is called again, on another text
CursorSecondCall ==
    /\ cu.pc = "done" /\ cu.call = 1
    /\ \E content \in SecondTexts : cu' = StartParse(content, 2, cu.cur)
    /\ UNCHANGED <<esc, rt, ap, ps, tw, instVars>>

NextCursor ==
    \/ CursorTopLine
    \/ CursorEnterBlock
    \/ CursorBlockLine
    \/ CursorEndBlock
    \/ CursorBlockRunsOut
    \/ CursorFinish
    \/ CursorSecondCall

SpecCursor == InitCursor /\ [][NextCursor]_vars

\* parse is synchronous code: a call that has started keeps running
FairCursor == SpecCursor /\ WF_vars(NextCursor)

---------------------------------------------------------------------------
(* Parser totality                                                         *)

IsVariableRecord(v) ==
    /\ DOMAIN v = {"name", "type", "defaultValue", "required"}
    /\ v.required \in BOOLEAN
    /\ v.name # Undef /\ v.type # Undef /\ v.defaultValue # Undef

IsGroupRecord(g) ==
    /\ DOMAIN g = {"name", "variables"}
    /\ g.name # Undef

IsReplacementRecord(r) ==
    /\ DOMAIN r = {"original", "variable", "filePatterns"}
    /\ r.original # Undef /\ r.variable # Undef
    /\ Len(r.filePatterns) > 0

IsTemplate(t) ==
    /\ DOMAIN t = DOMAIN EmptyTemplate
    /\ t.name # Undef /\ t.version # Undef /\ t.author # Undef /\ t.description # Undef
    /\ \A i \in 1..Len(t.variables) : IsVariableRecord(t.variables[i])
    /\ \A i \in 1..Len(t.groups) : IsGroupRecord(t.groups[i])
    /\ \A i \in 1..Len(t.replacements) : IsReplacementRecord(t.replacements[i])
    /\ \A i \in 1..Len(t.onInstall) : Len(t.onInstall[i]) > 0

DefaultVariable == [name |-> <<>>, type |-> <<"S","T","R","I","N","G">>, defaultValue |-> <<>>, required |-> FALSE]

\* What the parse of malformed lines alone comes to
MalformedDefaulted ==
    /\ (\A i \in 1..Len(ps.lines) :
           ps.lines[i] \in {<<>>, <<"#","c">>, <<"F","O","O"," ","b","a","r">>, <<"E","N","D">>, <<"e","n","d">>, <<"N","A","M","E"," ","\"","x">>, <<"R","E","Q","U","I","R","E","S">>})
         => ps.result = [EmptyTemplate EXCEPT !.requires =
                            IF \E i \in 1..Len(ps.lines) : ps.lines[i] = <<"R","E","Q","U","I","R","E","S">>
                            THEN <<>> ELSE Undef]
    /\ ps.lines = << <<"V","A","R">> >>
         => ps.result = [EmptyTemplate EXCEPT !.variables = <<DefaultVariable>>]
    /\ ps.lines = << <<"A","S","K">> >>
         => ps.result = [EmptyTemplate EXCEPT !.variables = <<DefaultVariable>>]
    /\ ps.lines = << <<"G","R","O","U","P"," ","g"," ","[","a">> >>
         => ps.result = [EmptyTemplate EXCEPT !.groups =
                            << [name |-> <<"g">>, variables |-> <<>>] >>]
    /\ ps.lines = << <<"R","E","P","L","A","C","E"," ","\"","a","b","c">> >>
         => ps.result = [EmptyTemplate EXCEPT !.replacements = <<NoOpReplacement>>]
    /\ (Len(ps.lines) = 2 /\ ps.lines[1] = <<"O","N"," ","I","N","S","T","A","L","L">>
          /\ ps.lines[2] \notin {<<"R","U","N"," ","\"","g","o","\"">>, <<"r","u","n"," ","\"","g","o","\"">>})
         => /\ ps.result.variables = <<>>
            /\ ps.result.onInstall = <<>>

---------------------------------------------------------------------------
(* Determinism of the replacement engine                                   *)

TwinDone == tw.runs[1].todo = {} /\ tw.runs[2].todo = {}

---------------------------------------------------------------------------
(* Variable resolution                                                     *)

VariableNames(t) == {t.variables[i].name : i \in 1..Len(t.variables)}
Applying == pc \in {"copy", "copied", "confirm", "post"} \/ Succeeded

\* C15: a required variable with an empty default is never resolved to an
\* empty (or blank) value: when the copy starts, the value map holds no empty
\* value for it, whether the values were prompted or built by --defaults.
C15_RequiredNeverEmpty ==
    Applying =>
        \A i \in 1..Len(template.variables) :
            LET v == template.variables[i]
            IN  (v.required /\ ~Truthy(DefaultOrEmpty(v)) /\ v.name \in DOMAIN resolved)
                    => Truthy(Trim(resolved[v.name]))

\* C16: when the caller supplies a value map, every variable of the template
\* has a value at apply time: the supplied one when the map has it, else the
\* prompted one or the declared default.
C16_ValuePriority ==
    (Applying /\ env.values # Null) =>
        \A n \in VariableNames(template) :
            /\ n \in DOMAIN resolved
            /\ n \in DOMAIN env.values => resolved[n] = env.values[n]

\* C17: the phases of one installTemplate call run in the order resolve, copy,
\* post-install and never overlap: nothing is written before the values are
\* resolved, and no command is started before the walk has ended with every
\* file written.
C17_PhasesInOrder ==
    /\ pc \in {"readKlore", "checkOutput", "resolve", "prompt", "resolved"}
          => dest = env.dest0 /\ walk = NoWalk /\ post = NoPost
    /\ (dest # env.dest0 \/ walk # NoWalk)
          => resolved # Null /\ prompt.queue = <<>> /\ ~prompt.cancelled
    /\ walk.stack # <<>> => post = NoPost
    /\ post # NoPost
          => /\ walk.stack = <<>>
             /\ ~walk.failed
             /\ walk.written = CopiedFiles(env.source)
             /\ walk.written \subseteq DOMAIN dest.files

\* A command runs after prompted values were resolved and files were copied
C17_Witness ==
    /\ pc = "post"
    /\ post.running
    /\ DOMAIN prompt.vals # {}
    /\ walk.filesCreated > 0

\* C18: a promptVariables call that is not cancelled returns a value for
\* every distinct variable name of the template, whatever its group.
C18_EveryNameResolved ==
    (env.values = Null /\ Applying) => DOMAIN resolved = VariableNames(template)

---------------------------------------------------------------------------
(* Generated variable lines                                                *)

TextLines == Split(rt.text, NL)

\* The positions of the variable lines of a name in the generated text
AskLinesOf(name) ==
    {i \in 1..Len(TextLines) : StartsWith(TextLines[i], <<"A","S","K"," ">> \o name \o <<SP>>)}

OtherHeaderAt == {i \in 1..Len(TextLines) : TextLines[i] = <<"#"," ","*"," ","O","T","H","E","R"," ","S","E","T","T","I","N","G","S">>}

\* C19: the generated text holds a variable line for every variable of the
\* template; a variable of no group, or of a group outside the canonical
\* list, has its line in the "other" section.
C19_EveryVariableEmitted ==
    rt.pc = "generated" =>
        \A k \in 1..Len(rt.template.variables) :
            LET v == rt.template.variables[k]
            IN  /\ AskLinesOf(v.name) # {}
                /\ ~ArrIncludes(groupOrder, VarGroupName(rt.template, v))
                      => \E h \in OtherHeaderAt : \E i \in AskLinesOf(v.name) : h < i

\* C20: the generated text of a template without groups holds exactly one
\* variable line for each variable name, the line of the first variable of
\* that name.
C20_OneLinePerName ==
    (rt.pc = "generated" /\ rt.template.groups = <<>>) =>
        \A k \in 1..Len(rt.template.variables) :
            LET v == rt.template.variables[k]
                first == CHOOSE j \in 1..k : /\ rt.template.variables[j].name = v.name
                                             /\ \A h \in 1..(j - 1) :
                                                   rt.template.variables[h].name # v.name
            IN  /\ Cardinality(AskLinesOf(v.name)) = 1
                /\ \A i \in AskLinesOf(v.name) :
                      TextLines[i] = OtherAskLine(rt.template.variables[first])

---------------------------------------------------------------------------
(* Parsed templates                                                        *)

Parsed == ps.pc = "parsed"

\* The parse of the lines that follow the block, on their own
TailParse == parseKlore(Join(ps.lines, <<NL>>))

\* C21: in a Template returned by parseKlore every replacement's variable is
\* the name of a variable of that Template.
C21_ReplacementVariableDeclared ==
    Parsed =>
        \A i \in 1..Len(ps.result.replacements) :
            \E j \in 1..Len(ps.result.variables) :
                ps.result.variables[j].name = ps.result.replacements[i].variable

\* The line with its keywords in upper case
UpperKeywords(line) ==
    CASE line = <<"v","a","r"," ","a"," ","s","t","r","i","n","g"," ","\"","d","\""," ","r","e","q","u","i","r","e","d">> -> <<"V","A","R"," ","a"," ","S","T","R","I","N","G"," ","\"","d","\""," ","R","E","Q","U","I","R","E","D">>
      [] line = <<"r","e","p","l","a","c","e"," ","\"","a","\""," ","w","i","t","h"," ","{","{"," ","g","h","o","s","t"," ","}","}"," ","i","n"," ","\"","*",".","m","d","\"">>
            -> <<"R","E","P","L","A","C","E"," ","\"","a","\""," ","W","I","T","H"," ","{","{"," ","g","h","o","s","t"," ","}","}"," ","I","N"," ","\"","*",".","m","d","\"">>
      [] line = <<"o","n"," ","i","n","s","t","a","l","l">> -> <<"O","N"," ","I","N","S","T","A","L","L">>
      [] line = <<"r","u","n"," ","\"","g","o","\"">> -> <<"R","U","N"," ","\"","g","o","\"">>
      [] line = <<"e","n","d">> -> <<"E","N","D">>
      [] OTHER -> line

\* C26: keywords are matched in any letter case: a text parses to the same
\* Template as the text with its keywords in upper case.
C26_KeywordsAnyCase ==
    Parsed =>
        ps.result = parseKlore(Join(ps.block \o [i \in 1..Len(ps.lines) |->
                                                    UpperKeywords(ps.lines[i])], <<NL>>))

VariableTypes == { <<"S","T","R","I","N","G">>, <<"C","O","L","O","R">>, <<"E","M","A","I","L">>, <<"P","H","O","N","E">>, <<"U","R","L">>, <<"N","U","M","B","E","R">> }

\* C27: the type of every parsed variable is one of the six types: the type
\* token in upper case when it is one of them, STRING otherwise.
C27_VariableTypeKnown ==
    Parsed =>
        /\ \A i \in 1..Len(ps.result.variables) : ps.result.variables[i].type \in VariableTypes
        /\ ps.lines = << <<"V","A","R"," ","x"," ","\"","d","\"">> >> /\ ps.block = <<>>
              => ps.result.variables[1].type = <<"S","T","R","I","N","G">>

\* REPLACE lines without a WITH keyword or without a terminated original
MalformedReplace == { <<"R","E","P","L","A","C","E"," ","\"","a","b","c">>, <<"R","E","P","L","A","C","E"," ","W","I","T","H">>, <<"R","E","P","L","A","C","E"," ","\"","W","I","T","H","I","N","\"">> }

\* C28: a malformed REPLACE line adds exactly one no-op replacement (empty
\* original, empty variable), and the line after it is parsed as it is
\* without the malformed line.
C28_MalformedReplaceIsNoOp ==
    (Parsed /\ ps.block = <<>> /\ Len(ps.lines) = 2 /\ ps.lines[1] \in MalformedReplace) =>
        ps.result = [parseKlore(ps.lines[2]) EXCEPT !.replacements = <<NoOpReplacement>> \o @]

\* C29: from an ON or ON_INSTALL line the parser takes the lines up to the
\* first END: the RUN commands go to the install steps in order, the REPLACE
\* lines go to the one replacement list in order with the top-level ones, and
\* the lines after END are parsed as top-level lines.
C29_BlockThenTopLevel ==
    (Parsed /\ ps.block # <<>>) =>
        LET inBlock == Repl(<<"b">>, <<"a">>, AllFiles)
            before == IF ps.block[1] = <<"O","N"," ","I","N","S","T","A","L","L">> THEN <<>>
                      ELSE << Repl(<<"c">>, <<"a">>, AllFiles) >>
            steps == IF ps.block[1] = <<"O","N"," ","I","N","S","T","A","L","L">> THEN << <<"g","o">>, <<"b","u","i","l","d">> >> ELSE <<>>
        IN  ps.result = [TailParse EXCEPT !.replacements = before \o <<inBlock>> \o @,
                                          !.onInstall = steps \o @]

\* A block with two commands and a replacement was followed by a VAR line
\* and a REPLACE line
C29_Witness ==
    /\ Parsed
    /\ ps.block # <<>>
    /\ ps.block[1] = <<"O","N"," ","I","N","S","T","A","L","L">>
    /\ ps.lines = << <<"V","A","R"," ","a"," ","S","T","R","I","N","G"," ","\"","d","\""," ","R","E","Q","U","I","R","E","D">>, <<"R","E","P","L","A","C","E"," ","\"","a","\""," ","W","I","T","H"," ","{","{"," ","g","h","o","s","t"," ","}","}"," ","I","N"," ","\"","*",".","m","d","\"">> >>
    /\ ps.result.onInstall = << <<"g","o">>, <<"b","u","i","l","d">> >>
    /\ Len(ps.result.replacements) = 2
    /\ Len(ps.result.variables) = 1

---------------------------------------------------------------------------
(* Install steps, order of replacements, inserted values, file patterns    *)

\* C22: the install steps survive generation and parsing: the parsed list is
\* the template's list of commands in the same order, and is empty for a
\* template without install steps.
C22_InstallStepsRoundTrip ==
    rt.pc = "parsed" => rt.parsed.onInstall = rt.template.onInstall

Applied == ap.pc = "applied"

\* C23: applyReplacements takes the replacements in list order, each as one
\* global replace over the content the earlier ones produced, and leaves the
\* content as it is for a replacement without a value or with an empty original.
C23_InListOrder ==
    Applied =>
        /\ ap.result = applyReplacements(ap.content,
                          SelectSeq(ap.replacements, LAMBDA r : Applicable(r, ap.values)),
                          ap.values)
        /\ (\A k \in 1..Len(ap.replacements) : ~Applicable(ap.replacements[k], ap.values))
              => ap.result = ap.content
        /\ (Len(ap.replacements) = 1 /\ Applicable(ap.replacements[1], ap.values))
              => ap.result = LiteralReplaceFrom(ap.content, ap.replacements[1].original,
                                                ap.values[ap.replacements[1].variable], 1)
        /\ Len(ap.replacements) = 2
              => ap.result = applyReplacements(
                                 applyReplacements(ap.content, <<ap.replacements[1]>>, ap.values),
                                 <<ap.replacements[2]>>, ap.values)

\* The second replacement matched text that the first one had inserted
C23_Witness ==
    /\ Applied
    /\ ap.content = <<".">>
    /\ Len(ap.replacements) = 2
    /\ ap.replacements[1].original = <<".">>
    /\ ap.replacements[2].original = <<"a">>
    /\ ap.result = <<"x",".","b">>

\* C24: what is inserted for each match of an original is the value itself,
\* character for character, dollar signs included.
C24_ValueInsertedVerbatim ==
    (Applied /\ Len(ap.replacements) = 1 /\ Applicable(ap.replacements[1], ap.values)) =>
        ap.result = ReplaceAll(ap.content, ap.replacements[1].original,
                               ap.values[ap.replacements[1].variable])

\* The replacements with every filePatterns set to the catch-all
WidenPatterns(replacements) ==
    [k \in 1..Len(replacements) |-> [replacements[k] EXCEPT !.filePatterns = AllFiles]]

\* No value that is inserted holds the original
NotReinserted(original) ==
    \A k \in 1..Len(template.replacements) :
        Applicable(template.replacements[k], resolved)
            => ~OccursIn(original, resolved[template.replacements[k].variable])

\* C25: the install does not depend on filePatterns: the files and the counts
\* are those of the same replacements with catch-all patterns, and every
\* replacement with a value is applied to every text file.
C25_FilePatternsIgnored ==
    Succeeded =>
        /\ \A f \in TextFiles(env.source) :
              /\ dest.files[f] = applyReplacements(env.source.content[f],
                                    WidenPatterns(template.replacements), resolved)
              /\ \A k \in 1..Len(template.replacements) :
                    LET r == template.replacements[k]
                    IN  (Applicable(r, resolved) /\ NotReinserted(r.original))
                            => ~OccursIn(r.original, dest.files[f])
        /\ installResult.replacementsApplied =
              Cardinality({f \in TextFiles(env.source) :
                  applyReplacements(env.source.content[f],
                      WidenPatterns(template.replacements), resolved)
                  # env.source.content[f]})

\* A replacement declared for "*.md" has changed src/app.js
C25_Witness ==
    /\ Succeeded
    /\ env.source = TreeShop
    /\ \E k \in 1..Len(template.replacements) :
          /\ template.replacements[k].filePatterns = << <<"*",".","m","d">> >>
          /\ template.replacements[k].original = <<"a","@","b",".","c">>
    /\ dest.files[<< <<"s","r","c">>, <<"a","p","p",".","j","s">> >>] = <<"m","a","i","l"," ","x","@","y",".","z">>

---------------------------------------------------------------------------
(* The line cursor                                                         *)

\* No block is open when line i is reached
NoBlockOpenAt(i) ==
    \/ i = 1
    \/ cu.log[i - 1].as = "end"
    \/ cu.log[i - 1].as = "top" /\ ~IsOnCommand(cu.lines[i - 1])

\* Lines are handled in order, each once and as one thing, none past the last
CursorInv ==
    cu.pc # "off" =>
        /\ cu.cur \in 1..(Len(cu.lines) + 2)
        /\ Len(cu.log) < cu.cur /\ Len(cu.log) <= Len(cu.lines)
        /\ \A i \in 1..Len(cu.log) :
              /\ cu.log[i].line = i
              /\ cu.log[i].as = "top" => NoBlockOpenAt(i)
              /\ cu.log[i].as = "end" => IsEndLine(cu.lines[i]) /\ ~NoBlockOpenAt(i)
              /\ cu.log[i].as = "block" => ~IsEndLine(cu.lines[i]) /\ ~NoBlockOpenAt(i)
        /\ cu.pc = "done" =>
              /\ Len(cu.log) = Len(cu.lines)
              /\ LogTemplate(cu.lines, cu.log, 1, EmptyTemplate)
                    = ParseFrom(cu.lines, 1, EmptyTemplate)
              /\ \A j \in 1..Len(cu.lines) :
                    (/\ IsOnCommand(cu.lines[j]) /\ cu.log[j].as = "top"
                     /\ \A k \in (j + 1)..Len(cu.lines) : ~IsEndLine(cu.lines[k]))
                        => \A k \in (j + 1)..Len(cu.lines) : cu.log[k].as = "block"

\* Within one call the cursor never moves back, and handling a line moves it on
CursorForward ==
    (cu.pc # "off" /\ cu'.call = cu.call) =>
        /\ cu'.cur >= cu.cur
        /\ cu'.log # cu.log => cu'.cur = cu.cur + 1

\* C30: the line cursor only moves forward and every call ends; each line that
\* is neither blank nor a comment is handled once, as a top-level command or as
\* a line of a block, the END of a block never as a top-level command; a block
\* without END takes all the lines left and reads none past the last; a second
\* call starts from its own first line and gives the parse of its own text.
C30_CursorForwardAndEnds ==
    /\ []CursorInv
    /\ [][CursorForward]_vars
    /\ <>(cu.pc = "done" /\ cu.call = 2)

\* The second call has ended on a block without END, after a first call that
\* had moved its cursor
C30_Witness ==
    /\ cu.pc = "done" /\ cu.call = 2
    /\ cu.prev > 1
    /\ cu.lines = << <<"O","N"," ","I","N","S","T","A","L","L">>, <<"R","U","N"," ","\"","g","o","\"">> >>
    /\ cu.cur = 4
    /\ LogTemplate(cu.lines, cu.log, 1, EmptyTemplate).onInstall = << <<"g","o">> >>

=============================================================================
